---------------------------- MODULE Spec2Model ----------------------------
(***************************************************************************)
(* Rustania: the gameplay core of a lane-based rhythm game.                *)
(*                                                                         *)
(* The model follows src/src/game.rs (update_and_draw and the four        *)
(* judgment passes), src/src/models.rs (HitJudgment, Note, GameState),    *)
(* src/src/audio.rs (the list of looping slider sinks) and the note       *)
(* constructor of src/src/parser.rs.                                       *)
(*                                                                         *)
(* Time.  The program keeps times as f32 seconds.  The model keeps them   *)
(* as integer milliseconds, so 0.135 s is 135; a difference of two times  *)
(* is exact in the model.  Fields that are only written for drawing       *)
(* (judgment_color, judgment_time, last_input_delay, speed_change_time,   *)
(* speed_display_text, bg_texture, song_name) are left out.                *)
(*                                                                         *)
(* One call of update_and_draw is a sequence of steps in program order:   *)
(* UpdateAndDraw (Escape, pause, clock, song end), then one KeyPress per  *)
(* lane whose key was pressed, one KeyRelease per lane whose key was      *)
(* released, HoldIntegrity, SliderSound and MissCheck.  pc is the         *)
(* position inside the call.                                               *)
(***************************************************************************)
EXTENDS Integers, Sequences, FiniteSets, TLC

VARIABLES
    state,      \* GameState (models.rs), the fields the judgment core reads or writes
    elapsed,    \* state.start_time.elapsed() at the latest frame, ms
    now,        \* the local `now` of the latest unpaused frame, ms
    keys_down,  \* lanes whose key is_key_down
    pressed,    \* lanes with is_key_pressed in the frame that is running
    released,   \* lanes with is_key_released in the frame that is running
    pc,         \* position inside update_and_draw
    lane_i,     \* the lanes below lane_i have been visited by the loop pc names
    frame0,     \* GameState when the key loops of the running frame began
    sinks,      \* AudioSystem.active_slider_sinks: for each sink, the note whose loop it plays
    exited,     \* update_and_draw has returned true (leave gameplay)
    frame_times, \* the values of `now` at which the frame driver may run a frame
    abs_diff,   \* the argument of HitJudgment::from_timing under test, ms
    judged,     \* its result with its score_value, NotJudged before the call
    audio,      \* state.audio: not attached, attached with every command failing, or working
    results,    \* accuracy and grade as draw_results_screen computed them last
    osu_file,   \* the chart and files given to load_map
    loaded,     \* what that call of load_map gave, NotLoaded before it
    scene,      \* main.rs: scene
    audio_sink, \* main.rs: audio_sink, "Some" while it holds the sink of the music
    hit_sounds  \* the calls of play_hit made on state.audio

vars == <<state, elapsed, now, keys_down, pressed, released, pc, lane_i, frame0, sinks,
          exited, frame_times, abs_diff, judged, audio, results, osu_file, loaded, scene,
          audio_sink, hit_sounds>>

-----------------------------------------------------------------------------
(* Program constants, in milliseconds.                                     *)

OK_WINDOW == 135

PERFECT_WINDOW == 40

GREAT_WINDOW == 75

GOOD_WINDOW == 110

MIN_LN_DURATION == 150

RESULTS_DELAY == 2000

(* Bounds of the model.                                                    *)

\* key_count of the session (the game offers 2 and 4)
KeyCount == 2

\* frames sample the clock within Jitter ms of every window edge of every note
Jitter == 1

\* frames spent paused in one session
MaxPausedFrames == 2

\* wall-clock time between two frames while paused, ms
PauseStep == 500

\* the largest absolute offset given to from_timing on its own, ms
MaxDiff == 200

\* the largest count in one hit_counts bucket given to draw_results_screen on its own
MaxCount == 6

Lanes == 0 .. (KeyCount - 1)

Abs(x) == IF x < 0 THEN -x ELSE x

Min(S) == CHOOSE x \in S : \A y \in S : x <= y

-----------------------------------------------------------------------------
(* models.rs: HitJudgment                                                  *)

Tiers == {"Perfect", "Great", "Good", "Ok", "Miss"}

\* the thresholds compared with < for <=
from_timing_open(d) ==
    IF d < PERFECT_WINDOW THEN "Perfect"
    ELSE IF d < GREAT_WINDOW THEN "Great"
    ELSE IF d < GOOD_WINDOW THEN "Good"
    ELSE IF d < OK_WINDOW THEN "Ok"
    ELSE "Miss"

from_timing(d) ==
    IF d <= PERFECT_WINDOW THEN "Perfect"
    ELSE IF d <= GREAT_WINDOW THEN "Great"
    ELSE IF d <= GOOD_WINDOW THEN "Good"
    ELSE IF d <= OK_WINDOW THEN "Ok"
    ELSE "Miss"

score_value(j) ==
    CASE j = "Perfect" -> 300
      [] j = "Great" -> 200
      [] j = "Good" -> 100
      [] j = "Ok" -> 50
      [] OTHER -> 0

\* HitJudgment::text
text(j) ==
    CASE j = "Perfect" -> "PERFECT"
      [] j = "Great" -> "GREAT"
      [] j = "Good" -> "GOOD"
      [] j = "Ok" -> "OK"
      [] OTHER -> "MISS"

\* the `match judgment { Perfect => hit_counts.perfect += 1, ... _ => {} }` blocks
count_hit(hc, j) ==
    CASE j = "Perfect" -> [hc EXCEPT !.perfect = @ + 1]
      [] j = "Great" -> [hc EXCEPT !.great = @ + 1]
      [] j = "Good" -> [hc EXCEPT !.good = @ + 1]
      [] j = "Ok" -> [hc EXCEPT !.ok = @ + 1]
      [] OTHER -> hc

-----------------------------------------------------------------------------
(* parser.rs: the Note pushed for one hit object                           *)

NewNote(start_time, end_time, lane) ==
    [ start_time |-> start_time,
      end_time |-> end_time,
      lane |-> lane,
      hit |-> FALSE,
      missed |-> FALSE,
      is_ln |-> (end_time - start_time) >= MIN_LN_DURATION,
      ln_head_hit |-> FALSE,
      ln_hold_broken |-> FALSE,
      ln_completed |-> FALSE,
      ln_head_judgment |-> "None",
      ln_tail_judgment |-> "None",
      slider_sound_playing |-> FALSE ]

\* parser.rs: the GameState returned by load_map
NewGameState(notes, song_duration) ==
    [ notes |-> notes,
      score |-> 0,
      combo |-> 0,
      last_judgment |-> "",
      hit_counts |-> [perfect |-> 0, great |-> 0, good |-> 0, ok |-> 0, miss |-> 0],
      song_finished |-> FALSE,
      song_duration |-> song_duration,
      paused |-> FALSE,
      pause_start |-> -1,
      total_pause_time |-> 0 ]


-----------------------------------------------------------------------------
(* game.rs: handle_key_press                                               *)

\* can_hit without the test of hit and ln_head_hit
can_hit_again(note) == ~note.missed

\* `can_hit` of the selection loop
can_hit(note) ==
    IF note.is_ln THEN ~note.ln_head_hit /\ ~note.missed
    ELSE ~note.hit /\ ~note.missed

\* the selection loop keeping the last of equally close notes (<= for <)
closest_step_last(closest, idx, note, lane, t) ==
    IF note.lane # lane \/ ~can_hit(note) THEN closest
    ELSE LET time_diff == Abs(note.start_time - t) IN
         IF time_diff < OK_WINDOW /\ (closest[1] = 0 \/ time_diff <= closest[2])
         THEN <<idx, time_diff>> ELSE closest

\* the selection loop keeping the first note inside the window, however far
closest_step_first(closest, idx, note, lane, t) ==
    IF note.lane # lane \/ ~can_hit(note) THEN closest
    ELSE LET time_diff == Abs(note.start_time - t) IN
         IF time_diff < OK_WINDOW /\ closest[1] = 0
         THEN <<idx, time_diff>> ELSE closest

\* the selection loop with a closed window (<= for <)
closest_step_closed(closest, idx, note, lane, t) ==
    IF note.lane # lane \/ ~can_hit(note) THEN closest
    ELSE LET time_diff == Abs(note.start_time - t) IN
         IF time_diff <= OK_WINDOW /\ (closest[1] = 0 \/ time_diff < closest[2])
         THEN <<idx, time_diff>> ELSE closest

\* one iteration of the selection loop: closest is <<idx, diff>>, <<0, 0>> for None
closest_step(closest, idx, note, lane, t) ==
    IF note.lane # lane THEN closest
    ELSE IF ~can_hit(note) THEN closest
    ELSE LET time_diff == Abs(note.start_time - t) IN
         IF time_diff < OK_WINDOW
         THEN IF closest[1] # 0
              THEN IF time_diff < closest[2] THEN <<idx, time_diff>> ELSE closest
              ELSE <<idx, time_diff>>
         ELSE closest

RECURSIVE closest_from(_, _, _, _, _)
closest_from(notes, idx, closest, lane, t) ==
    IF idx > Len(notes) THEN closest
    ELSE closest_from(notes, idx + 1, closest_step(closest, idx, notes[idx], lane, t), lane, t)

\* the index of the note the press selects, 0 when it selects none
closest_note(notes, lane, t) == closest_from(notes, 1, <<0, 0>>, lane, t)[1]

\* the block with half the tier's value for the head of a long note
apply_hit_half_head(s, idx, t) ==
    LET note == s.notes[idx]
        judgment == from_timing(Abs(note.start_time - t))
    IN  IF judgment = "Miss" THEN s
        ELSE [s EXCEPT
                !.notes[idx] = IF note.is_ln
                               THEN [note EXCEPT !.ln_head_hit = TRUE,
                                                 !.ln_head_judgment = judgment]
                               ELSE [note EXCEPT !.hit = TRUE],
                !.combo = @ + 1,
                !.score = @ + (IF note.is_ln THEN score_value(judgment) \div 2
                               ELSE score_value(judgment)),
                !.hit_counts = count_hit(@, judgment),
                !.last_judgment = text(judgment)]

\* the `if let Some((idx, _)) = closest_note` block
apply_hit(s, idx, t) ==
    LET note == s.notes[idx]
        abs_timing == Abs(note.start_time - t)
        judgment == from_timing(abs_timing)
    IN  IF judgment = "Miss" THEN s
        ELSE [s EXCEPT
                !.notes[idx] = IF note.is_ln
                               THEN [note EXCEPT !.ln_head_hit = TRUE,
                                                 !.ln_head_judgment = judgment]
                               ELSE [note EXCEPT !.hit = TRUE],
                !.combo = @ + 1,
                !.score = @ + score_value(judgment),
                !.hit_counts = count_hit(@, judgment),
                !.last_judgment = text(judgment)]

handle_key_press(s, lane, t) ==
    LET idx == closest_note(s.notes, lane, t)
    IN  IF idx = 0 THEN s ELSE apply_hit(s, idx, t)

\* `audio.play_hit()` moved out of the `if let Some((idx, _)) = closest_note` block
press_plays_hit_unconditional(s, lane, t) == TRUE

\* the press reaches `audio.play_hit()`: a note is selected and its judgment is not
\* Miss
press_plays_hit(s, lane, t) ==
    LET idx == closest_note(s.notes, lane, t)
    IN  idx # 0 /\ from_timing(Abs(s.notes[idx].start_time - t)) # "Miss"

-----------------------------------------------------------------------------
(* game.rs: handle_key_release                                             *)

\* the guards of the release loop up to the window test
awaiting_release(note, lane) ==
    /\ note.lane = lane
    /\ note.is_ln
    /\ note.ln_head_hit
    /\ ~(note.ln_completed \/ note.ln_hold_broken)

\* the window test with <= for <
release_candidates_closed(notes, lane, t) ==
    {i \in 1 .. Len(notes) :
        awaiting_release(notes[i], lane) /\ Abs(notes[i].end_time - t) <= OK_WINDOW}

\* the notes the loop would accept; the loop breaks at the first
release_candidates(notes, lane, t) ==
    {i \in 1 .. Len(notes) :
        awaiting_release(notes[i], lane) /\ Abs(notes[i].end_time - t) < OK_WINDOW}

apply_release(s, idx, t) ==
    LET note == s.notes[idx]
        tail_judgment == from_timing(Abs(note.end_time - t))
    IN  [s EXCEPT
            !.notes[idx] = [note EXCEPT !.ln_tail_judgment = tail_judgment,
                                        !.ln_completed = TRUE],
            !.combo = @ + 1,
            !.score = @ + score_value(tail_judgment),
            !.hit_counts = count_hit(@, tail_judgment),
            !.last_judgment = text(tail_judgment)]

\* the loop without its break: every accepted note is resolved
RECURSIVE release_each(_, _, _)
release_each(s, c, t) ==
    IF c = {} THEN s ELSE release_each(apply_release(s, Min(c), t), c \ {Min(c)}, t)

handle_key_release_no_break(s, lane, t) ==
    release_each(s, release_candidates(s.notes, lane, t), t)

handle_key_release(s, lane, t) ==
    LET c == release_candidates(s.notes, lane, t)
    IN  IF c = {} THEN s ELSE apply_release(s, Min(c), t)

\* the release reaches `audio.play_hit()`: a tail is inside its window
release_plays_hit(s, lane, t) == release_candidates(s.notes, lane, t) # {}

-----------------------------------------------------------------------------
(* game.rs: check_ln_hold_integrity                                        *)

\* the hold phase with its end included
in_hold_phase_closed(note, lane, t) ==
    /\ awaiting_release(note, lane)
    /\ t >= note.start_time
    /\ t <= note.end_time

\* the note is in its hold phase and must be held
in_hold_phase(note, lane, t) ==
    /\ awaiting_release(note, lane)
    /\ t >= note.start_time
    /\ t < note.end_time

\* the hold break without its `state.combo = 0`
check_ln_hold_integrity_keep_combo(s, lane, is_holding, t) ==
    LET broken == {i \in 1 .. Len(s.notes) :
                      in_hold_phase(s.notes[i], lane, t) /\ ~is_holding}
    IN  IF broken = {} THEN s
        ELSE [s EXCEPT
                !.notes = [i \in 1 .. Len(s.notes) |->
                              IF i \in broken
                              THEN [s.notes[i] EXCEPT !.ln_hold_broken = TRUE,
                                                      !.ln_completed = TRUE,
                                                      !.ln_tail_judgment = "Miss"]
                              ELSE s.notes[i]],
                !.last_judgment = "MISS",
                !.hit_counts.miss = @ + Cardinality(broken)]

check_ln_hold_integrity(s, lane, is_holding, t) ==
    LET broken == {i \in 1 .. Len(s.notes) :
                      in_hold_phase(s.notes[i], lane, t) /\ ~is_holding}
    IN  IF broken = {} THEN s
        ELSE [s EXCEPT
                !.notes = [i \in 1 .. Len(s.notes) |->
                              IF i \in broken
                              THEN [s.notes[i] EXCEPT !.ln_hold_broken = TRUE,
                                                      !.ln_completed = TRUE,
                                                      !.ln_tail_judgment = "Miss"]
                              ELSE s.notes[i]],
                !.combo = 0,
                !.last_judgment = "MISS",
                !.hit_counts.miss = @ + Cardinality(broken)]

\* the loop over the lanes in update_and_draw
RECURSIVE hold_integrity_from(_, _, _, _)
hold_integrity_from(s, lane, down, t) ==
    IF lane >= KeyCount THEN s
    ELSE hold_integrity_from(check_ln_hold_integrity(s, lane, lane \in down, t),
                             lane + 1, down, t)

-----------------------------------------------------------------------------
(* game.rs: check_missed_notes                                             *)

ln_head_missed(note, t) ==
    ~note.missed /\ note.is_ln /\ ~note.ln_head_hit /\ (note.start_time - t) < -OK_WINDOW

\* the tail branch of the sweep without its test of ln_completed
ln_tail_missed_completed(note, t) ==
    /\ ~note.missed /\ note.is_ln
    /\ note.ln_head_hit /\ (note.end_time - t) < -OK_WINDOW

ln_tail_missed(note, t) ==
    /\ ~note.missed /\ note.is_ln
    /\ ~ln_head_missed(note, t)
    /\ note.ln_head_hit /\ ~note.ln_completed /\ (note.end_time - t) < -OK_WINDOW

\* the sweep without its `if note.missed { continue; }` for taps
tap_missed_again(note, t) ==
    ~note.is_ln /\ ~note.hit /\ (note.start_time - t) < -OK_WINDOW

\* the tap branch of the sweep with <= for <
tap_missed_closed(note, t) ==
    ~note.missed /\ ~note.is_ln /\ ~note.hit /\ (note.start_time - t) <= -OK_WINDOW

\* the tap branch of the sweep with twice the window
tap_missed_late(note, t) ==
    ~note.missed /\ ~note.is_ln /\ ~note.hit /\ (note.start_time - t) < -(2 * OK_WINDOW)

tap_missed(note, t) ==
    ~note.missed /\ ~note.is_ln /\ ~note.hit /\ (note.start_time - t) < -OK_WINDOW

\* the tail branch writing both judgments, as the head branch does
miss_note_both(note, t) ==
    IF ln_head_missed(note, t) \/ ln_tail_missed(note, t)
    THEN [note EXCEPT !.missed = TRUE, !.ln_completed = TRUE,
                      !.ln_head_judgment = "Miss", !.ln_tail_judgment = "Miss"]
    ELSE IF tap_missed(note, t)
    THEN [note EXCEPT !.missed = TRUE]
    ELSE note

miss_note(note, t) ==
    IF ln_head_missed(note, t)
    THEN [note EXCEPT !.missed = TRUE, !.ln_completed = TRUE,
                      !.ln_head_judgment = "Miss", !.ln_tail_judgment = "Miss"]
    ELSE IF ln_tail_missed(note, t)
    THEN [note EXCEPT !.missed = TRUE, !.ln_completed = TRUE,
                      !.ln_tail_judgment = "Miss"]
    ELSE IF tap_missed(note, t)
    THEN [note EXCEPT !.missed = TRUE]
    ELSE note

\* a missed head counted once, like a missed tail
miss_weight_one(note, t) ==
    IF ln_head_missed(note, t) \/ ln_tail_missed(note, t) \/ tap_missed(note, t) THEN 1
    ELSE 0

\* what one note adds to hit_counts.miss
miss_weight(note, t) ==
    IF ln_head_missed(note, t) THEN 2
    ELSE IF ln_tail_missed(note, t) \/ tap_missed(note, t) THEN 1
    ELSE 0

RECURSIVE miss_total(_, _, _)
miss_total(notes, idx, t) ==
    IF idx > Len(notes) THEN 0
    ELSE miss_weight(notes[idx], t) + miss_total(notes, idx + 1, t)

check_missed_notes(s, t) ==
    LET n == miss_total(s.notes, 1, t)
    IN  IF n = 0 THEN s
        ELSE [s EXCEPT
                !.notes = [i \in 1 .. Len(s.notes) |-> miss_note(s.notes[i], t)],
                !.combo = 0,
                !.last_judgment = "MISS",
                !.hit_counts.miss = @ + n]

-----------------------------------------------------------------------------
(* game.rs: the four judgment passes of one frame, in the order of         *)
(* update_and_draw: the press loop over the lanes in P, the release loop   *)
(* over the lanes in R, the hold integrity loop, check_missed_notes.  The  *)
(* slider sound loop between the last two changes no field they read.      *)

RECURSIVE press_loop_from(_, _, _, _)
press_loop_from(s, lane, P, t) ==
    IF lane >= KeyCount THEN s
    ELSE press_loop_from(IF lane \in P THEN handle_key_press(s, lane, t) ELSE s,
                         lane + 1, P, t)

RECURSIVE release_loop_from(_, _, _, _)
release_loop_from(s, lane, R, t) ==
    IF lane >= KeyCount THEN s
    ELSE release_loop_from(IF lane \in R THEN handle_key_release(s, lane, t) ELSE s,
                           lane + 1, R, t)

judgment_passes(s, P, R, D, t) ==
    check_missed_notes(
        hold_integrity_from(release_loop_from(press_loop_from(s, 0, P, t), 0, R, t),
                            0, D, t),
        t)

-----------------------------------------------------------------------------
(* audio.rs: the looping slider sinks                                      *)

\* play_slider_start: a new sink is pushed; idx is the note it was started for
play_slider_start(sk, idx) == Append(sk, idx)

\* stop_slider: the oldest sink is removed and stopped, whatever the lane
stop_slider(sk) == IF sk = <<>> THEN sk ELSE Tail(sk)

\* stop_all_sliders: the list is drained
stop_all_sliders(sk) == <<>>

(* game.rs: the slider sound loop of update_and_draw                       *)

\* the loop's first branch: the note has no hold in progress
not_holding(note) == ~note.ln_head_hit \/ note.ln_completed \/ note.ln_hold_broken

\* one iteration of the loop; r is [notes, sinks]
slider_sound_step(r, idx, t) ==
    LET note == r.notes[idx] IN
    IF ~note.is_ln THEN r
    ELSE IF not_holding(note)
    THEN IF note.slider_sound_playing
         THEN [notes |-> [r.notes EXCEPT ![idx].slider_sound_playing = FALSE],
               sinks |-> stop_slider(r.sinks)]
         ELSE r
    ELSE IF t >= note.start_time /\ t < note.end_time /\ ~note.slider_sound_playing
    THEN [notes |-> [r.notes EXCEPT ![idx].slider_sound_playing = TRUE],
          sinks |-> play_slider_start(r.sinks, idx)]
    ELSE r

RECURSIVE slider_sound_from(_, _, _)
slider_sound_from(r, idx, t) ==
    IF idx > Len(r.notes) THEN r
    ELSE slider_sound_from(slider_sound_step(r, idx, t), idx + 1, t)

-----------------------------------------------------------------------------
(* game.rs: draw_results_screen.  The accuracy is an f32 in the program;   *)
(* the model keeps the quotient exact, as <<numerator, denominator>> with  *)
(* a positive denominator.                                                 *)

total_objects(hc) == hc.perfect + hc.great + hc.good + hc.ok + hc.miss

weighted_score(hc) == 300 * hc.perfect + 200 * hc.great + 100 * hc.good + 50 * hc.ok

\* the accuracy over the notes that were hit, the misses left out of total_objects
accuracy_of_hits(hc) ==
    IF hc.perfect + hc.great + hc.good + hc.ok > 0
    THEN <<weighted_score(hc) * 100, 300 * (hc.perfect + hc.great + hc.good + hc.ok)>>
    ELSE <<0, 1>>

\* (weighted_score / max_score) * 100.0, or 0.0
accuracy(hc) ==
    IF total_objects(hc) > 0
    THEN <<weighted_score(hc) * 100, 300 * total_objects(hc)>>
    ELSE <<0, 1>>

\* accuracy > pct
at_least_strict(acc, pct) == acc[1] > pct * acc[2]

\* accuracy >= pct
at_least(acc, pct) == acc[1] >= pct * acc[2]

grade(acc, miss) ==
    IF at_least(acc, 100) /\ miss = 0 THEN "SS"
    ELSE IF at_least(acc, 95) /\ miss = 0 THEN "S"
    ELSE IF at_least(acc, 90) THEN "A"
    ELSE IF at_least(acc, 80) THEN "B"
    ELSE IF at_least(acc, 70) THEN "C"
    ELSE "D"

draw_results_screen(s) ==
    [accuracy |-> accuracy(s.hit_counts),
     grade |-> grade(accuracy(s.hit_counts), s.hit_counts.miss)]

\* the results screen has not been drawn
NotDrawn == [accuracy |-> <<0, 1>>, grade |-> "None"]

-----------------------------------------------------------------------------
(* The charts and the inputs of the model.                                 *)

\* offsets from a note's start or end at which the judgment changes: Perfect up to 40,
\* Great up to 75, Good up to 110
Edges == {-PERFECT_WINDOW, 0, PERFECT_WINDOW, GREAT_WINDOW, GOOD_WINDOW}

\* fewer of them, and one past the hit window, for the charts with two lanes or two
\* long notes
FewEdges == {0, GREAT_WINDOW, 2 * GREAT_WINDOW}

\* offsets around the edge of the hit window, on both sides of a note's start or end
WindowEdges ==
    {OK_WINDOW + j : j \in -Jitter .. Jitter} \cup {-OK_WINDOW + j : j \in -Jitter .. Jitter}

\* <<start_time, end_time, lane>> of every hit object, the song's duration, and the
\* offsets from its notes at which frames sample the clock:
\* a tap; a long note; two taps of one lane 80 ms apart, the second a short slider;
\* two taps of different lanes at the same time; two long notes of one lane that
\* start together, the first ending later
Charts ==
    { [ objects |-> << <<2000, 0, 0>> >>, song_duration |-> 2200,
        edges |-> Edges \cup {10} \cup WindowEdges ],
      [ objects |-> << <<1000, 2000, 0>> >>, song_duration |-> 2200,
        edges |-> {0, 20, GOOD_WINDOW} \cup WindowEdges ],
      [ objects |-> << <<1000, 0, 0>>, <<1080, 1180, 0>> >>, song_duration |-> 1300,
        edges |-> Edges \cup WindowEdges ],
      [ objects |-> << <<1000, 0, 0>>, <<1000, 0, 1>> >>, song_duration |-> 1300,
        edges |-> FewEdges ],
      [ objects |-> << <<1000, 1300, 0>>, <<1000, 1150, 0>> >>, song_duration |-> 1500,
        edges |-> FewEdges ] }

LoadMap(chart) ==
    NewGameState([i \in 1 .. Len(chart.objects) |->
                     NewNote(chart.objects[i][1], chart.objects[i][2], chart.objects[i][3])],
                 chart.song_duration)

\* the times the judgment of some note is measured from
Anchors(s) ==
    {s.notes[i].start_time : i \in 1 .. Len(s.notes)}
    \cup {s.notes[i].end_time : i \in {k \in 1 .. Len(s.notes) : s.notes[k].is_ln}}

\* the middle of every hold, and the time the results screen comes up
Landmarks(s) ==
    {(s.notes[i].start_time + s.notes[i].end_time) \div 2 :
        i \in {k \in 1 .. Len(s.notes) : s.notes[k].is_ln}}
    \cup {s.song_duration + RESULTS_DELAY + j : j \in -Jitter .. Jitter}

\* the values of `now` at which a frame of the session may run
FrameTimes(s, edges) ==
    {x[1] + x[2] : x \in Anchors(s) \X edges} \cup Landmarks(s)

\* the player touches only the keys of lanes that hold a note
PlayedLanes(s) == {s.notes[i].lane : i \in 1 .. Len(s.notes)}

\* is_key_pressed, is_key_released and is_key_down of one frame, given the keys that
\* were down in the frame before: <<P, R, D>>
consistent_key(was_down, p, r, d) ==
    IF p /\ r THEN TRUE
    ELSE IF p THEN ~was_down /\ d
    ELSE IF r THEN was_down /\ ~d
    ELSE d = was_down

KeyInputs(s, down) ==
    {x \in (SUBSET PlayedLanes(s)) \X (SUBSET PlayedLanes(s)) \X (SUBSET PlayedLanes(s)) :
        \A l \in PlayedLanes(s) :
            consistent_key(l \in down, l \in x[1], l \in x[2], l \in x[3])}

-----------------------------------------------------------------------------
(* game.rs: update_and_draw, step by step                                  *)

\* where the call continues once the press loop has visited the lanes below i, and
\* once the release loop has
after_press(P, R, i) ==
    IF {l \in P : l >= i} # {} THEN "press" ELSE IF R # {} THEN "release" ELSE "hold"

after_release(R, i) ==
    IF {l \in R : l >= i} # {} THEN "release" ELSE "hold"

\* load_map has not been called, and the chart of a call that is not modelled
NotLoaded == [status |-> "none"]

NoChart == [readable |-> FALSE]

\* no frame is running
NoFrame == [notes |-> <<>>]

\* from_timing has not been called
NotJudged == [judgment |-> "None", score_value |-> 0]

\* the Escape block without the addition to total_pause_time
toggle_pause_forget(s, t) ==
    IF ~s.paused
    THEN [s EXCEPT !.paused = TRUE, !.pause_start = t]
    ELSE [s EXCEPT !.paused = FALSE, !.pause_start = -1]

\* the Escape block that keeps pause_start when the pause ends
toggle_pause_keep_start(s, t) ==
    IF ~s.paused
    THEN [s EXCEPT !.paused = TRUE, !.pause_start = t]
    ELSE [s EXCEPT !.paused = FALSE,
                   !.total_pause_time = IF s.pause_start # -1
                                        THEN @ + (t - s.pause_start) ELSE @]

\* the Escape block: pause toggles, and leaving a pause adds its length to
\* total_pause_time
toggle_pause(s, t) ==
    IF ~s.paused
    THEN [s EXCEPT !.paused = TRUE, !.pause_start = t]
    ELSE [s EXCEPT !.paused = FALSE,
                   !.total_pause_time = IF s.pause_start # -1
                                        THEN @ + (t - s.pause_start) ELSE @,
                   !.pause_start = -1]

\* the wall-clock times of the next frame: on the grid of FrameTimes while playing,
\* PauseStep later while paused
NextElapsed(s) ==
    IF s.paused THEN {elapsed + PauseStep}
    ELSE {g + s.total_pause_time : g \in {x \in frame_times : x > now}}

\* a pause may begin, or go on for one more frame, while the session has paused frames left
MayStayPaused(s, t) ==
    LET running == IF s.paused THEN t - s.pause_start ELSE 0
    IN  s.total_pause_time + running + PauseStep <= MaxPausedFrames * PauseStep

\* the pause test placed after the missed sweep
PausedFrame_sweeps(esc, t, D) ==
    LET s1 == IF esc THEN toggle_pause(state, t) ELSE state IN
    /\ pc = "frame" /\ ~exited /\ ~state.song_finished
    /\ s1.paused
    /\ MayStayPaused(s1, t)
    /\ state' = check_missed_notes(s1, t - s1.total_pause_time)
    /\ elapsed' = t
    /\ sinks' = IF audio = "none" THEN sinks ELSE stop_all_sliders(sinks)
    /\ keys_down' = D
    /\ UNCHANGED <<now, pressed, released, pc, lane_i, frame0, exited, frame_times,
                   abs_diff, judged, audio, results,
                   osu_file, loaded, scene, audio_sink,
                   hit_sounds>>

\* a frame that ends in the pause menu
PausedFrame(esc, t, D) ==
    LET s1 == IF esc THEN toggle_pause(state, t) ELSE state IN
    /\ pc = "frame" /\ ~exited /\ ~state.song_finished
    /\ s1.paused
    /\ MayStayPaused(s1, t)
    /\ state' = s1
    /\ elapsed' = t
    /\ sinks' = IF audio = "none" THEN sinks ELSE stop_all_sliders(sinks)
    /\ keys_down' = D
    /\ UNCHANGED <<now, pressed, released, pc, lane_i, frame0, exited, frame_times,
                   abs_diff, judged, audio, results,
                   osu_file, loaded, scene, audio_sink,
                   hit_sounds>>

\* the results screen without the stop of the slider sounds
ResultsFrame_no_stop(esc, t, D) ==
    LET s1 == IF esc /\ ~state.song_finished THEN toggle_pause(state, t) ELSE state
        t_now == t - s1.total_pause_time
    IN
    /\ pc = "frame" /\ ~exited
    /\ ~s1.paused
    /\ state.song_finished \/ t_now >= s1.song_duration + RESULTS_DELAY
    /\ state' = [s1 EXCEPT !.song_finished = TRUE]
    /\ elapsed' = t
    /\ now' = t_now
    /\ keys_down' = D
    /\ exited' = esc
    /\ results' = draw_results_screen([s1 EXCEPT !.song_finished = TRUE])
    /\ scene' = IF esc THEN "DiffSelect" ELSE scene
    /\ audio_sink' = "None"
    /\ UNCHANGED <<sinks, pressed, released, pc, lane_i, frame0, frame_times, abs_diff,
                   judged, audio, osu_file, loaded,
                   hit_sounds>>

\* a frame that reaches the song's end, or runs after it: the results screen
ResultsFrame(esc, t, D) ==
    LET s1 == IF esc /\ ~state.song_finished THEN toggle_pause(state, t) ELSE state
        t_now == t - s1.total_pause_time
    IN
    /\ pc = "frame" /\ ~exited
    /\ ~s1.paused
    /\ state.song_finished \/ t_now >= s1.song_duration + RESULTS_DELAY
    /\ state' = [s1 EXCEPT !.song_finished = TRUE]
    /\ elapsed' = t
    /\ now' = t_now
    /\ sinks' = IF audio = "none" THEN sinks ELSE stop_all_sliders(sinks)
    /\ keys_down' = D
    /\ exited' = esc
    /\ results' = draw_results_screen([s1 EXCEPT !.song_finished = TRUE])
    /\ scene' = IF esc THEN "DiffSelect" ELSE scene
    /\ audio_sink' = "None"
    /\ UNCHANGED <<pressed, released, pc, lane_i, frame0, frame_times, abs_diff, judged,
                   audio, osu_file, loaded,
                   hit_sounds>>

\* a frame that plays: the clock is read and the key loops begin
PlayFrame(esc, t, P, R, D) ==
    LET s1 == IF esc THEN toggle_pause(state, t) ELSE state
        t_now == t - s1.total_pause_time
    IN
    /\ pc = "frame" /\ ~exited /\ ~state.song_finished
    /\ ~s1.paused
    /\ t_now < s1.song_duration + RESULTS_DELAY
    /\ state' = s1
    /\ frame0' = s1
    /\ elapsed' = t
    /\ now' = t_now
    /\ keys_down' = D
    /\ pressed' = P
    /\ released' = R
    /\ lane_i' = 0
    /\ pc' = after_press(P, R, 0)
    /\ UNCHANGED <<sinks, exited, frame_times, abs_diff, judged, audio, results,
                   osu_file, loaded, scene, audio_sink,
                   hit_sounds>>

UpdateAndDraw ==
    \E esc \in BOOLEAN, t \in NextElapsed(state), x \in KeyInputs(state, keys_down) :
        \/ PausedFrame(esc, t, x[3])
        \/ ResultsFrame(esc, t, x[3])
        \/ PlayFrame(esc, t, x[1], x[2], x[3])

\* the lane the loop visits next
next_lane(S) == Min({l \in S : l >= lane_i})

\* the press handled inside `if let Some(audio) = &state.audio`
KeyPress_with_audio ==
    /\ pc = "press"
    /\ LET lane == next_lane(pressed) IN
        /\ state' = IF audio = "none" THEN state ELSE handle_key_press(state, lane, now)
        /\ pc' = after_press(pressed, released, lane + 1)
        /\ lane_i' = IF after_press(pressed, released, lane + 1) = "press" THEN lane + 1 ELSE 0
    /\ UNCHANGED <<elapsed, now, keys_down, pressed, released, frame0, sinks, exited,
                   frame_times, abs_diff, judged, audio, results,
                   osu_file, loaded, scene, audio_sink>>
    /\ hit_sounds' = IF audio # "none" /\ press_plays_hit(state, next_lane(pressed), now)
                     THEN hit_sounds + 1 ELSE hit_sounds

\* the press loop, one lane with is_key_pressed
KeyPress ==
    /\ pc = "press"
    /\ LET lane == next_lane(pressed) IN
        /\ state' = handle_key_press(state, lane, now)
        /\ pc' = after_press(pressed, released, lane + 1)
        /\ lane_i' = IF after_press(pressed, released, lane + 1) = "press" THEN lane + 1 ELSE 0
    /\ UNCHANGED <<elapsed, now, keys_down, pressed, released, frame0, sinks, exited,
                   frame_times, abs_diff, judged, audio, results,
                   osu_file, loaded, scene, audio_sink>>
    /\ hit_sounds' = IF audio # "none" /\ press_plays_hit(state, next_lane(pressed), now)
                     THEN hit_sounds + 1 ELSE hit_sounds

\* the release loop, one lane with is_key_released
KeyRelease ==
    /\ pc = "release"
    /\ LET lane == next_lane(released) IN
        /\ state' = handle_key_release(state, lane, now)
        /\ pc' = after_release(released, lane + 1)
        /\ lane_i' = IF after_release(released, lane + 1) = "release" THEN lane + 1 ELSE 0
    /\ UNCHANGED <<elapsed, now, keys_down, pressed, released, frame0, sinks, exited,
                   frame_times, abs_diff, judged, audio, results,
                   osu_file, loaded, scene, audio_sink>>
    /\ hit_sounds' = IF audio # "none" /\ release_plays_hit(state, next_lane(released), now)
                     THEN hit_sounds + 1 ELSE hit_sounds

\* the hold integrity loop over all lanes
HoldIntegrity ==
    /\ pc = "hold"
    /\ state' = hold_integrity_from(state, 0, keys_down, now)
    /\ pc' = "sound"
    /\ UNCHANGED <<elapsed, now, keys_down, pressed, released, lane_i, frame0, sinks,
                   exited, frame_times, abs_diff, judged, audio, results,
                   osu_file, loaded, scene, audio_sink,
                   hit_sounds>>

\* the slider sound loop
SliderSound ==
    /\ pc = "sound"
    /\ LET r == slider_sound_from([notes |-> state.notes, sinks |-> sinks], 1, now) IN
        /\ state' = [state EXCEPT !.notes = r.notes]
        /\ sinks' = IF audio = "ok" THEN r.sinks ELSE sinks
    /\ pc' = "miss"
    /\ UNCHANGED <<elapsed, now, keys_down, pressed, released, lane_i, frame0, exited,
                   frame_times, abs_diff, judged, audio, results,
                   osu_file, loaded, scene, audio_sink,
                   hit_sounds>>

\* check_missed_notes, after which the call draws and returns false
MissCheck ==
    /\ pc = "miss"
    /\ state' = check_missed_notes(state, now)
    /\ pc' = "frame"
    /\ pressed' = {}
    /\ released' = {}
    /\ frame0' = NoFrame
    /\ UNCHANGED <<elapsed, now, keys_down, lane_i, sinks, exited, frame_times,
                   abs_diff, judged, audio, results,
                   osu_file, loaded, scene, audio_sink,
                   hit_sounds>>

Init ==
    /\ \E c \in Charts :
        /\ state = LoadMap(c)
        /\ frame_times = FrameTimes(LoadMap(c), c.edges)
    /\ elapsed = 0
    /\ now = 0
    /\ keys_down = {}
    /\ pressed = {}
    /\ released = {}
    /\ pc = "frame"
    /\ lane_i = 0
    /\ frame0 = NoFrame
    /\ sinks = <<>>
    /\ exited = FALSE
    /\ abs_diff = 0
    /\ judged = NotJudged
    /\ audio = "ok"
    /\ results = NotDrawn
    /\ osu_file = NoChart
    /\ loaded = NotLoaded
    /\ scene = "Playing"
    /\ audio_sink = "Some"
    /\ hit_sounds = 0

Next ==
    \/ UpdateAndDraw
    \/ KeyPress
    \/ KeyRelease
    \/ HoldIntegrity
    \/ SliderSound
    \/ MissCheck

Spec == Init /\ [][Next]_vars

-----------------------------------------------------------------------------
(* The same session under each outcome of the audio collaborator: no       *)
(* AudioSystem attached (state.audio is None), an AudioSystem whose sounds *)
(* are missing or whose sinks cannot be made (no sink is ever kept), and   *)
(* one that works.  The charts are those of a single note.                 *)

AudioModes == {"none", "failing", "ok"}

AudioCharts == {c \in Charts : Len(c.objects) = 1}

AudioInit ==
    /\ \E c \in AudioCharts :
        /\ state = LoadMap(c)
        /\ frame_times = FrameTimes(LoadMap(c), c.edges)
    /\ elapsed = 0
    /\ now = 0
    /\ keys_down = {}
    /\ pressed = {}
    /\ released = {}
    /\ pc = "frame"
    /\ lane_i = 0
    /\ frame0 = NoFrame
    /\ sinks = <<>>
    /\ exited = FALSE
    /\ abs_diff = 0
    /\ judged = NotJudged
    /\ audio \in AudioModes
    /\ results = NotDrawn
    /\ osu_file = NoChart
    /\ loaded = NotLoaded
    /\ scene = "Playing"
    /\ audio_sink = "Some"
    /\ hit_sounds = 0

AudioSpec == AudioInit /\ [][Next]_vars

-----------------------------------------------------------------------------
(* HitJudgment::from_timing and score_value on their own: every absolute   *)
(* offset up to MaxDiff is classified once.                                *)

TimingInit ==
    /\ state = NewGameState(<<>>, 0)
    /\ frame_times = {}
    /\ elapsed = 0
    /\ now = 0
    /\ keys_down = {}
    /\ pressed = {}
    /\ released = {}
    /\ pc = "frame"
    /\ lane_i = 0
    /\ frame0 = NoFrame
    /\ sinks = <<>>
    /\ exited = FALSE
    /\ abs_diff \in 0 .. MaxDiff
    /\ judged = NotJudged
    /\ audio = "ok"
    /\ results = NotDrawn
    /\ osu_file = NoChart
    /\ loaded = NotLoaded
    /\ scene = "Playing"
    /\ audio_sink = "Some"
    /\ hit_sounds = 0

FromTiming ==
    /\ judged = NotJudged
    /\ judged' = [judgment |-> from_timing(abs_diff),
                  score_value |-> score_value(from_timing(abs_diff))]
    /\ UNCHANGED <<state, elapsed, now, keys_down, pressed, released, pc, lane_i, frame0,
                   sinks, exited, frame_times, abs_diff, audio, results,
                   osu_file, loaded, scene, audio_sink,
                   hit_sounds>>

TimingNext == FromTiming

TimingSpec == TimingInit /\ [][TimingNext]_vars

-----------------------------------------------------------------------------
(* draw_results_screen on its own: the results of a finished session with  *)
(* every hit_counts of up to MaxCount in each bucket.                       *)

AccuracyInit ==
    /\ \E p, g, d, o, m \in 0 .. MaxCount :
        state = [NewGameState(<<>>, 0) EXCEPT
                    !.hit_counts = [perfect |-> p, great |-> g, good |-> d, ok |-> o,
                                    miss |-> m],
                    !.song_finished = TRUE]
    /\ frame_times = {}
    /\ elapsed = 0
    /\ now = 0
    /\ keys_down = {}
    /\ pressed = {}
    /\ released = {}
    /\ pc = "frame"
    /\ lane_i = 0
    /\ frame0 = NoFrame
    /\ sinks = <<>>
    /\ exited = FALSE
    /\ abs_diff = 0
    /\ judged = NotJudged
    /\ audio = "ok"
    /\ results = NotDrawn
    /\ osu_file = NoChart
    /\ loaded = NotLoaded
    /\ scene = "Playing"
    /\ audio_sink = "Some"
    /\ hit_sounds = 0

DrawResults ==
    /\ state.song_finished
    /\ results = NotDrawn
    /\ osu_file = NoChart
    /\ loaded = NotLoaded
    /\ scene = "Playing"
    /\ audio_sink = "Some"
    /\ results' = draw_results_screen(state)
    /\ UNCHANGED <<state, elapsed, now, keys_down, pressed, released, pc, lane_i, frame0,
                   sinks, exited, frame_times, abs_diff, judged, audio, osu_file, loaded,
                   scene, audio_sink,
                   hit_sounds>>

AccuracyNext == DrawResults

AccuracySpec == AccuracyInit /\ [][AccuracyNext]_vars

-----------------------------------------------------------------------------
(* parser.rs: load_map.  A chart file is modelled by what load_map reads of  *)
(* it: the lines of [TimingPoints] and of [HitObjects] as sequences of      *)
(* fields, a field being the number its text parses to or a text that does  *)
(* not parse.  Times are in milliseconds; a velocity and a slider           *)
(* multiplier are fractions <<numerator, denominator>>.                     *)

\* a field whose text parses to v, and a field whose text does not parse
Num(v) == [ok |-> TRUE, v |-> v]

Bad == [ok |-> FALSE, v |-> 0]

\* str::parse().unwrap_or(default)
parse_or(field, default) == IF field.ok THEN field.v ELSE default

Max(S) == CHOOSE x \in S : \A y \in S : y <= x

\* the beat length an inherited point takes: the one of the last point of the table
\* whose beat length is positive, 500 when there is none
inherited_beat_length(tp) ==
    LET found == {i \in 1 .. Len(tp) : tp[i].beat_length > 0}
    IN  IF found = {} THEN 500 ELSE tp[Max(found)].beat_length

\* the point of a line that takes the beat length of the first point of the table
timing_point_first(tp, p) ==
    LET time == parse_or(p[1], 0)
        val == parse_or(p[2], 500)
    IN  IF val > 0 THEN [time_ms |-> time, beat_length |-> val, velocity_mult |-> <<1, 1>>]
        ELSE [time_ms |-> time,
              beat_length |-> IF tp = <<>> THEN 500 ELSE tp[1].beat_length,
              velocity_mult |-> <<-100, val>>]

\* the point a line of [TimingPoints] with at least two fields adds to the table tp
timing_point(tp, p) ==
    LET time == parse_or(p[1], 0)
        val == parse_or(p[2], 500)
    IN  IF val > 0 THEN [time_ms |-> time, beat_length |-> val, velocity_mult |-> <<1, 1>>]
        ELSE [time_ms |-> time,
              beat_length |-> inherited_beat_length(tp),
              velocity_mult |-> <<-100, val>>]

RECURSIVE timing_points_from(_, _, _)
timing_points_from(lines, i, tp) ==
    IF i > Len(lines) THEN tp
    ELSE timing_points_from(lines, i + 1,
             IF Len(lines[i]) >= 2 THEN Append(tp, timing_point(tp, lines[i])) ELSE tp)

\* the timing-point table of the chart
timing_points(lines) ==
    LET tp == timing_points_from(lines, 1, <<>>)
    IN  IF tp = <<>>
        THEN <<[time_ms |-> 0, beat_length |-> 500, velocity_mult |-> <<1, 1>>]>>
        ELSE tp

\* the lookup that takes the first point at or before t
active_timing_first(tp, t) ==
    LET found == {i \in 1 .. Len(tp) : tp[i].time_ms <= t}
    IN  IF found = {} THEN [beat_length |-> 500, velocity_mult |-> <<1, 1>>]
        ELSE [beat_length |-> tp[Min(found)].beat_length,
              velocity_mult |-> tp[Min(found)].velocity_mult]

\* the (beat_length, velocity_mult) a slider at t is computed with
active_timing(tp, t) ==
    LET found == {i \in 1 .. Len(tp) : tp[i].time_ms <= t}
    IN  IF found = {} THEN [beat_length |-> 500, velocity_mult |-> <<1, 1>>]
        ELSE [beat_length |-> tp[Max(found)].beat_length,
              velocity_mult |-> tp[Max(found)].velocity_mult]

\* obj_type & b != 0 for a power of two b, obj_type in two's complement
has_bit(obj_type, b) == (obj_type % (2 * b)) >= b

\* the lane without the clamp
lane_of_unclamped(x, key_count) ==
    LET raw == (x * key_count) \div 512
    IN  IF raw < 0 THEN 0 ELSE raw

\* the lane of an object at x: floor, the cast to usize that takes a negative number
\* to 0, and the clamp
lane_of(x, key_count) ==
    LET raw == (x * key_count) \div 512
        as_usize == IF raw < 0 THEN 0 ELSE raw
    IN  IF as_usize > key_count - 1 THEN key_count - 1 ELSE as_usize

\* duration_ms = (pixel_length / (slider_multiplier * 100 * velocity_mult))
\*               * beat_length * slides, in whole milliseconds; a velocity with
\* denominator 0 is infinite and the quotient is 0
slider_duration(pixel_length, slider_multiplier, timing, slides) ==
    LET num == pixel_length * timing.beat_length * slides
                   * slider_multiplier[2] * timing.velocity_mult[2]
        den == slider_multiplier[1] * 100 * timing.velocity_mult[1]
    IN  IF timing.velocity_mult[2] = 0 THEN 0
        ELSE IF den < 0 THEN (-num) \div (-den)
        ELSE num \div den

\* end_time_ms with the slider branch tested before the hold branch
end_time_ms_slider_first(p, time_ms, tp, slider_multiplier) ==
    LET obj_type == parse_or(p[4], 0)
        is_hold == has_bit(obj_type, 128)
        is_slider == has_bit(obj_type, 2)
    IN  IF is_slider /\ Len(p) >= 8
        THEN time_ms + slider_duration(parse_or(p[8], 0), slider_multiplier,
                                       active_timing(tp, time_ms), parse_or(p[7], 1))
        ELSE IF is_hold /\ Len(p) > 5 THEN parse_or(p[6], 0)
        ELSE 0

\* end_time_ms of the object of line p
end_time_ms(p, time_ms, tp, slider_multiplier) ==
    LET obj_type == parse_or(p[4], 0)
        is_hold == has_bit(obj_type, 128)
        is_slider == has_bit(obj_type, 2)
    IN  IF is_hold /\ Len(p) > 5 THEN parse_or(p[6], 0)
        ELSE IF is_slider /\ Len(p) >= 8
        THEN time_ms + slider_duration(parse_or(p[8], 0), slider_multiplier,
                                       active_timing(tp, time_ms), parse_or(p[7], 1))
        ELSE 0

\* the note of a line of [HitObjects] with at least four fields
hit_object(p, key_count, tp, slider_multiplier) ==
    LET x == parse_or(p[1], 0)
        time_ms == parse_or(p[3], 0)
    IN  NewNote(time_ms, end_time_ms(p, time_ms, tp, slider_multiplier),
                lane_of(x, key_count))

\* the lines of [HitObjects] that give a note
object_lines(lines) == SelectSeq(lines, LAMBDA p : Len(p) >= 4)

\* bg_texture after the loop over [Events]
bg_texture(bg_event) == IF bg_event = "image" THEN "Some" ELSE "None"

\* load_map: Err when the chart cannot be read, a panic at the background event
\* whose closing quote is missing, Err when the audio file cannot be opened or
\* decoded or no sink can be made, and else the session, with the timing table and
\* the (beat_length, velocity_mult) found at the time of each object
load_map(osu, force_key_count) ==
    LET tp == timing_points(osu.timing_lines)
        sm == parse_or(osu.slider_multiplier, <<14, 10>>)
        kept == object_lines(osu.hit_lines)
    IN  IF ~osu.readable THEN [status |-> "err"]
        ELSE IF osu.bg_event = "unterminated" THEN [status |-> "panic"]
        ELSE IF osu.audio # "ok" \/ ~osu.output THEN [status |-> "err"]
        ELSE [ status |-> "ok",
               timing_points |-> tp,
               bg_texture |-> bg_texture(osu.bg_event),
               key_count |-> force_key_count,
               lookup |-> [i \in 1 .. Len(kept) |->
                              active_timing(tp, parse_or(kept[i][3], 0))],
               state |-> NewGameState([i \in 1 .. Len(kept) |->
                                          hit_object(kept[i], force_key_count, tp, sm)],
                                      osu.song_duration) ]

-----------------------------------------------------------------------------
(* load_map on its own: the charts it is given.                             *)

\* the longest [TimingPoints] section of the charts
MaxTimingLines == 3

\* main.rs: `state` before the first session
NoSession == [notes |-> <<>>, song_finished |-> FALSE, paused |-> FALSE]

\* a readable chart with a working audio file and output, no background event,
\* no SliderMultiplier line, and no timing line or hit object yet
BaseChart ==
    [ readable |-> TRUE,
      bg_event |-> "none",
      audio |-> "ok",
      output |-> TRUE,
      slider_multiplier |-> Bad,
      timing_lines |-> <<>>,
      hit_lines |-> <<>>,
      song_duration |-> 3000,
      force_key_count |-> 4 ]

\* x,y,time,type of a tap; a hold with its end field; a slider with its curve
\* (a text), slide count and pixel length
TapLine(x, t) == <<x, Num(192), Num(t), Num(1)>>

HoldLine(x, t, end) == <<x, Num(192), Num(t), Num(128), Num(0), end>>

SliderLine(t, slides, pixel_length) ==
    <<Num(64), Num(192), Num(t), Num(2), Num(0), Bad, Num(slides), Num(pixel_length)>>

\* one tap at every x of interest, in a 2K and a 4K session
LaneCharts ==
    {[BaseChart EXCEPT !.hit_lines = <<TapLine(x, 1000)>>, !.force_key_count = k] :
        x \in {Num(v) : v \in {-600, -1, 0, 127, 128, 255, 256, 383, 384, 511, 512, 600}}
              \cup {Bad},
        k \in {2, 4}}

\* timing lines: uninherited, inherited, unparsable, with one field, with value 0
TimingLines ==
    { <<Num(0), Num(500)>>, <<Num(1000), Num(400)>>, <<Num(500), Num(-50)>>,
      <<Num(1500), Num(-200)>>, <<Bad, Bad>>, <<Num(200)>>, <<Num(800), Num(0)>> }

\* every [TimingPoints] section of up to MaxTimingLines lines, and one slider
TimingCharts ==
    {[BaseChart EXCEPT !.timing_lines = tl, !.hit_lines = <<SliderLine(t, 1, 140)>>] :
        tl \in UNION {[1 .. n -> TimingLines] : n \in 0 .. MaxTimingLines},
        t \in {0, 600, 1200, 1600}}

\* one object of every type bits, cut after every number of fields
ObjectCharts ==
    {[BaseChart EXCEPT
        !.slider_multiplier = sm,
        !.timing_lines = << <<Num(0), Num(500)>>, <<Num(500), Num(-50)>> >>,
        !.hit_lines = <<SubSeq(<<Num(64), Num(192), Num(1000), type, Num(0), end, slides,
                                 pixel_length>>, 1, n)>>] :
        sm \in {Bad, Num(<<2, 1>>)},
        type \in {Num(0), Num(1), Num(5), Num(2), Num(128), Num(130), Bad},
        end \in {Num(500), Num(1000), Num(1100), Num(2000), Bad},
        slides \in {Num(1), Num(2), Bad},
        pixel_length \in {Num(-140), Num(0), Num(140), Num(280), Bad},
        n \in 3 .. 8}

\* two lines, the first too short or without a time that parses
TwoLineCharts ==
    {[BaseChart EXCEPT !.hit_lines = <<first, second>>] :
        first \in { <<Num(64), Num(192), Num(500)>>, <<Num(64), Num(192), Bad, Num(1)>>,
                    TapLine(Num(64), 1500) },
        second \in { TapLine(Num(300), 1000), HoldLine(Num(300), 1000, Num(1400)),
                     SliderLine(1000, 2, 140) }}

\* every state of the files: the chart, the background event, the audio file, the
\* output stream
FileCharts ==
    {[BaseChart EXCEPT !.readable = r, !.bg_event = bg, !.audio = a, !.output = o,
                       !.hit_lines = <<TapLine(Num(64), 1000)>>] :
        r \in BOOLEAN,
        bg \in {"none", "image", "unterminated", "missing_file", "unknown_format",
                "no_extension", "undecodable"},
        a \in {"ok", "missing", "undecodable"},
        o \in BOOLEAN}

ParseCharts == LaneCharts \cup TimingCharts \cup ObjectCharts \cup TwoLineCharts
                   \cup FileCharts

ParseInit ==
    /\ osu_file \in ParseCharts
    /\ loaded = NotLoaded
    /\ scene = "DiffSelect"
    /\ audio_sink = "None"
    /\ hit_sounds = 0
    /\ state = NoSession
    /\ frame_times = {}
    /\ elapsed = 0
    /\ now = 0
    /\ keys_down = {}
    /\ pressed = {}
    /\ released = {}
    /\ pc = "frame"
    /\ lane_i = 0
    /\ frame0 = NoFrame
    /\ sinks = <<>>
    /\ exited = FALSE
    /\ abs_diff = 0
    /\ judged = NotJudged
    /\ audio = "ok"
    /\ results = NotDrawn

\* one call of load_map
Load ==
    /\ osu_file # NoChart
    /\ loaded = NotLoaded
    /\ loaded' = load_map(osu_file, osu_file.force_key_count)
    /\ UNCHANGED <<state, elapsed, now, keys_down, pressed, released, pc, lane_i, frame0,
                   sinks, exited, frame_times, abs_diff, judged, audio, results, osu_file,
                   scene, audio_sink,
                   hit_sounds>>

ParseNext == Load

ParseSpec == ParseInit /\ [][ParseNext]_vars

-----------------------------------------------------------------------------
(* main.rs: the scenes.  The player goes from the menu to the difficulty    *)
(* list of a beatmap, clicks a difficulty, which calls load_map, and plays  *)
(* the session that the call returned.                                      *)

\* the difficulties the list offers: a tap; a hold; and the tap with a chart that
\* cannot be read, an audio file that is missing or cannot be decoded, no output
\* to make a sink on, and a background line without its closing quote
MainCharts ==
    LET tap == [BaseChart EXCEPT !.hit_lines = <<TapLine(Num(64), 1000)>>,
                                 !.force_key_count = KeyCount,
                                 !.song_duration = 1200]
    IN  { tap,
          [tap EXCEPT !.hit_lines = <<HoldLine(Num(300), 1000, Num(1400))>>,
                      !.song_duration = 1600],
          [tap EXCEPT !.readable = FALSE],
          [tap EXCEPT !.audio = "missing"],
          [tap EXCEPT !.audio = "undecodable"],
          [tap EXCEPT !.output = FALSE],
          [tap EXCEPT !.bg_event = "unterminated"] }

MainInit ==
    /\ scene = "Menu"
    /\ state = NoSession
    /\ audio_sink = "None"
    /\ hit_sounds = 0
    /\ osu_file = NoChart
    /\ loaded = NotLoaded
    /\ frame_times = {}
    /\ elapsed = 0
    /\ now = 0
    /\ keys_down = {}
    /\ pressed = {}
    /\ released = {}
    /\ pc = "frame"
    /\ lane_i = 0
    /\ frame0 = NoFrame
    /\ sinks = <<>>
    /\ exited = FALSE
    /\ abs_diff = 0
    /\ judged = NotJudged
    /\ audio = "ok"
    /\ results = NotDrawn

\* the button of a beatmap in the menu
SelectBeatmap ==
    /\ scene = "Menu"
    /\ scene' = "DiffSelect"
    /\ UNCHANGED <<state, elapsed, now, keys_down, pressed, released, pc, lane_i, frame0,
                   sinks, exited, frame_times, abs_diff, judged, audio, results, osu_file,
                   loaded, audio_sink,
                   hit_sounds>>

\* "< BACK TO MENU"
BackToMenu ==
    /\ scene = "DiffSelect"
    /\ scene' = "Menu"
    /\ UNCHANGED <<state, elapsed, now, keys_down, pressed, released, pc, lane_i, frame0,
                   sinks, exited, frame_times, abs_diff, judged, audio, results, osu_file,
                   loaded, audio_sink,
                   hit_sounds>>

\* the button of a difficulty that starts to play whatever load_map gave
ClickDifficulty_unchecked(c) ==
    LET r == load_map(c, c.force_key_count) IN
    /\ scene = "DiffSelect"
    /\ osu_file' = c
    /\ loaded' = r
    /\ IF r.status = "ok"
       THEN /\ state' = r.state
            /\ audio_sink' = "Some"
            /\ scene' = "Playing"
            /\ frame_times' = FrameTimes(r.state, FewEdges)
            /\ elapsed' = 0
            /\ now' = 0
            /\ keys_down' = {}
            /\ sinks' = <<>>
            /\ exited' = FALSE
            /\ results' = NotDrawn
            /\ hit_sounds' = 0
            /\ UNCHANGED <<pressed, released, pc, lane_i, frame0, abs_diff, judged, audio>>
       ELSE /\ scene' = "Playing"
            /\ UNCHANGED <<state, elapsed, now, keys_down, pressed, released, pc, lane_i,
                           frame0, sinks, exited, frame_times, abs_diff, judged, audio,
                           results, audio_sink,
                   hit_sounds>>

\* the button of a difficulty: load_map is called; with Ok the session and the sink
\* of the music are stored and the scene is Playing, with Err nothing changes, and
\* a panic ends the program
ClickDifficulty(c) ==
    LET r == load_map(c, c.force_key_count) IN
    /\ scene = "DiffSelect"
    /\ osu_file' = c
    /\ loaded' = r
    /\ IF r.status = "ok"
       THEN /\ state' = r.state
            /\ audio_sink' = "Some"
            /\ scene' = "Playing"
            /\ frame_times' = FrameTimes(r.state, FewEdges)
            /\ elapsed' = 0
            /\ now' = 0
            /\ keys_down' = {}
            /\ sinks' = <<>>
            /\ exited' = FALSE
            /\ results' = NotDrawn
            /\ hit_sounds' = 0
            /\ UNCHANGED <<pressed, released, pc, lane_i, frame0, abs_diff, judged, audio>>
       ELSE /\ scene' = IF r.status = "panic" THEN "Aborted" ELSE scene
            /\ UNCHANGED <<state, elapsed, now, keys_down, pressed, released, pc, lane_i,
                           frame0, sinks, exited, frame_times, abs_diff, judged, audio,
                           results, audio_sink,
                   hit_sounds>>

\* a step of update_and_draw, called in the scene Playing
Playing == scene = "Playing" /\ Next

MainNext ==
    \/ SelectBeatmap
    \/ BackToMenu
    \/ \E c \in MainCharts : ClickDifficulty(c)
    \/ Playing

MainSpec == MainInit /\ [][MainNext]_vars

-----------------------------------------------------------------------------
(* The session with its frames kept running: the loop of main.rs calls      *)
(* update_and_draw in every frame of the scene Playing, and a call runs its *)
(* passes to the end without waiting for anything.                          *)

\* the charts of a single note, with frames at few offsets from it
LiveCharts ==
    {[c EXCEPT !.edges = FewEdges \cup {OK_WINDOW + 1}] :
        c \in {d \in Charts : Len(d.objects) = 1}}

LiveInit ==
    /\ \E c \in LiveCharts :
        /\ state = LoadMap(c)
        /\ frame_times = FrameTimes(LoadMap(c), c.edges)
    /\ elapsed = 0
    /\ now = 0
    /\ keys_down = {}
    /\ pressed = {}
    /\ released = {}
    /\ pc = "frame"
    /\ lane_i = 0
    /\ frame0 = NoFrame
    /\ sinks = <<>>
    /\ exited = FALSE
    /\ abs_diff = 0
    /\ judged = NotJudged
    /\ audio = "ok"
    /\ results = NotDrawn
    /\ osu_file = NoChart
    /\ loaded = NotLoaded
    /\ scene = "Playing"
    /\ audio_sink = "Some"
    /\ hit_sounds = 0

LiveSpec == LiveInit /\ [][Next]_vars /\ WF_vars(Next)

-----------------------------------------------------------------------------
(* The slider loops of two holds that overlap on different lanes.           *)

\* a long note on lane 0 and a shorter one on lane 1 that start together, with
\* frames at the start, the middle and the end of each
LoopCharts ==
    { [ objects |-> << <<1000, 1600, 0>>, <<1000, 1300, 1>> >>, song_duration |-> 1700,
        edges |-> {0} ] }

LoopInit ==
    /\ \E c \in LoopCharts :
        /\ state = LoadMap(c)
        /\ frame_times = FrameTimes(LoadMap(c), c.edges)
    /\ elapsed = 0
    /\ now = 0
    /\ keys_down = {}
    /\ pressed = {}
    /\ released = {}
    /\ pc = "frame"
    /\ lane_i = 0
    /\ frame0 = NoFrame
    /\ sinks = <<>>
    /\ exited = FALSE
    /\ abs_diff = 0
    /\ judged = NotJudged
    /\ audio = "ok"
    /\ results = NotDrawn
    /\ osu_file = NoChart
    /\ loaded = NotLoaded
    /\ scene = "Playing"
    /\ audio_sink = "Some"
    /\ hit_sounds = 0

LoopSpec == LoopInit /\ [][Next]_vars

-----------------------------------------------------------------------------
(* Vocabulary of the properties.                                           *)

NoteIds == 1 .. Len(state.notes)

\* score, combo and the five buckets
Totals(s) == <<s.score, s.combo, s.hit_counts>>

\* the judgment state of a note: everything but slider_sound_playing
Judged(note) == [note EXCEPT !.slider_sound_playing = FALSE]

\* an unpaused, unfinished frame has just run to its end with `now` and keys_down
FrameDone ==
    pc = "frame" /\ elapsed > 0 /\ ~state.paused /\ ~state.song_finished

-----------------------------------------------------------------------------
\* C1: idempotence of the frame update.  After an unpaused, unfinished frame has run,
\* running the four judgment passes again with the same now, the same keys down and no
\* press or release event leaves score, combo and every hit_counts bucket as they are.
C1_Idempotent ==
    FrameDone =>
        Totals(judgment_passes(state, {}, {}, keys_down, now)) = Totals(state)

\* a frame has run its sweep over a tap that was missed and a frame before scored
C1_Witness ==
    /\ FrameDone
    /\ \E i \in NoteIds : state.notes[i].missed /\ now > state.notes[i].start_time + OK_WINDOW
    /\ state.hit_counts.miss > 0

-----------------------------------------------------------------------------
\* a note no pass may judge again: a tap that is hit or missed, a long note whose tail
\* judgment is set
Terminal(note) ==
    IF note.is_ln THEN note.ln_tail_judgment # "None" ELSE note.hit \/ note.missed

C2_Step ==
    /\ Len(state'.notes) = Len(state.notes)
    /\ \A i \in NoteIds :
        LET n == state.notes[i]
            m == state'.notes[i]
        IN  /\ (~n.is_ln /\ (n.hit \/ n.missed)) => (m.hit = n.hit /\ m.missed = n.missed)
            /\ (n.is_ln /\ n.ln_head_judgment # "None") =>
                   m.ln_head_judgment = n.ln_head_judgment
            /\ (n.is_ln /\ n.ln_tail_judgment # "None") =>
                   /\ n.ln_completed
                   /\ m.ln_tail_judgment = n.ln_tail_judgment
                   /\ m.ln_completed = n.ln_completed
                   /\ m.ln_hold_broken = n.ln_hold_broken
                   /\ m.missed = n.missed
            /\ Terminal(n) => Judged(m) = Judged(n)
    /\ Totals(state') # Totals(state) =>
           \E i \in NoteIds :
               ~Terminal(state.notes[i]) /\ Judged(state'.notes[i]) # Judged(state.notes[i])

\* C2: terminal states are stable.  In every step, a tap that is hit or missed keeps its
\* hit and missed flags, a long note keeps a head judgment that is set, and a long note
\* whose tail judgment is set keeps tail judgment, ln_completed, ln_hold_broken and
\* missed; score, combo and hit_counts change only in a step that changes the judgment
\* state of a note that was not terminal.
C2_TerminalStable == [][C2_Step]_vars

\* the press loop is about to visit the lane of a tap that is already hit and is still
\* inside the hit window
C2_Witness ==
    /\ pc = "press"
    /\ \E i \in NoteIds :
        /\ ~state.notes[i].is_ln /\ state.notes[i].hit
        /\ state.notes[i].lane = next_lane(pressed)
        /\ Abs(state.notes[i].start_time - now) < OK_WINDOW

-----------------------------------------------------------------------------
\* the terminal classes of a long note
HeadMissed(n) ==
    n.missed /\ ~n.ln_head_hit /\ n.ln_head_judgment = "Miss" /\ n.ln_tail_judgment = "Miss"

ReleasedInTime(n) ==
    n.ln_completed /\ ~n.ln_hold_broken /\ ~n.missed /\ n.ln_tail_judgment \notin {"None", "Miss"}

HoldBroken(n) == n.ln_hold_broken /\ n.ln_head_hit /\ n.ln_tail_judgment = "Miss"

TailTimeout(n) == n.missed /\ n.ln_head_hit /\ n.ln_tail_judgment = "Miss"

ClassesOf(n) ==
    {c \in {"head-missed", "released", "hold-broken", "tail-timeout"} :
        \/ c = "head-missed" /\ HeadMissed(n)
        \/ c = "released" /\ ReleasedInTime(n)
        \/ c = "hold-broken" /\ HoldBroken(n)
        \/ c = "tail-timeout" /\ TailTimeout(n)}

\* C3: one terminal classification per note.  A tap is never both hit and missed.  A long
\* note is in at most one of the classes head-missed, released, hold-broken and
\* tail-timeout, and in exactly one once it is completed, missed or hold-broken;
\* ln_hold_broken implies ln_head_hit; ln_completed holds exactly when the tail judgment
\* is set.
C3_OneClass ==
    \A i \in NoteIds :
        LET n == state.notes[i] IN
        IF ~n.is_ln THEN ~(n.hit /\ n.missed)
        ELSE /\ Cardinality(ClassesOf(n)) <= 1
             /\ (n.ln_completed \/ n.missed \/ n.ln_hold_broken) =>
                    Cardinality(ClassesOf(n)) = 1
             /\ n.ln_hold_broken => n.ln_head_hit
             /\ n.ln_completed <=> (n.ln_tail_judgment # "None")

\* the sweep has run more than 135 ms after the end of a long note whose hold was broken
C3_Witness ==
    /\ pc = "frame"
    /\ \E i \in NoteIds :
        /\ state.notes[i].ln_hold_broken
        /\ now > state.notes[i].end_time + OK_WINDOW

-----------------------------------------------------------------------------
(* The judgment rules as the specification words them.                     *)

\* a note whose head has not been judged: a tap neither hit nor missed, a long note
\* with head not hit and not missed
Pending(n) == IF n.is_ln THEN ~n.ln_head_hit /\ ~n.missed ELSE ~n.hit /\ ~n.missed

\* the notes a press on `lane` at time t may select
Eligible(s, lane, t) ==
    {i \in 1 .. Len(s.notes) :
        /\ s.notes[i].lane = lane
        /\ Pending(s.notes[i])
        /\ Abs(s.notes[i].start_time - t) < 135}

\* the tier of an absolute offset, by its interval
TierOf(d) ==
    CASE d <= 40 -> "Perfect"
      [] 40 < d /\ d <= 75 -> "Great"
      [] 75 < d /\ d <= 110 -> "Good"
      [] 110 < d /\ d <= 135 -> "Ok"
      [] OTHER -> "Miss"

ValueOf(tier) ==
    CASE tier = "Perfect" -> 300
      [] tier = "Great" -> 200
      [] tier = "Good" -> 100
      [] tier = "Ok" -> 50
      [] tier = "Miss" -> 0

\* hit_counts with the bucket of the tier one higher and the others as they were
Bumped(hc, tier) ==
    [perfect |-> hc.perfect + (IF tier = "Perfect" THEN 1 ELSE 0),
     great |-> hc.great + (IF tier = "Great" THEN 1 ELSE 0),
     good |-> hc.good + (IF tier = "Good" THEN 1 ELSE 0),
     ok |-> hc.ok + (IF tier = "Ok" THEN 1 ELSE 0),
     miss |-> hc.miss + (IF tier = "Miss" THEN 1 ELSE 0)]

\* the notes a step changes
Changed == {i \in NoteIds : state'.notes[i] # state.notes[i]}

\* the running frame began with note i pending and the press loop is through
PressedInFrame(i) ==
    /\ pc \in {"release", "hold"}
    /\ frame0 # NoFrame
    /\ Pending(frame0.notes[i])
    /\ ~Pending(state.notes[i])

-----------------------------------------------------------------------------
C4_Step ==
    pc = "press" =>
        LET lane == next_lane(pressed)
            E == Eligible(state, lane, now)
        IN  E # {} =>
                \E i \in E :
                    LET n == state.notes[i]
                        m == state'.notes[i]
                        tier == TierOf(Abs(n.start_time - now))
                    IN  /\ tier # "Miss"
                        /\ state'.combo = state.combo + 1
                        /\ state'.score = state.score + ValueOf(tier)
                        /\ state'.hit_counts = Bumped(state.hit_counts, tier)
                        /\ IF n.is_ln
                           THEN m = [n EXCEPT !.ln_head_hit = TRUE, !.ln_head_judgment = tier]
                           ELSE m = [n EXCEPT !.hit = TRUE]

\* C4: effect of a successful press.  When the press on a lane has a note to select,
\* combo grows by 1, score by the full value of the tier of |start_time - now|, exactly
\* the bucket of that tier by 1; a tap gets hit, a long note gets ln_head_hit and that
\* tier as head judgment.
C4_PressEffect == [][C4_Step]_vars

\* the tap at 2.000 s was pressed in the frame at 2.010 s: Perfect, 300, combo 1
C4_Witness ==
    /\ PressedInFrame(1)
    /\ state.notes[1].start_time = 2000 /\ now = 2010
    /\ state.notes[1].hit
    /\ state.score = 300 /\ state.combo = 1 /\ state.hit_counts.perfect = 1

-----------------------------------------------------------------------------
C5_Step ==
    pc = "press" =>
        LET lane == next_lane(pressed)
            E == Eligible(state, lane, now)
            d(i) == Abs(state.notes[i].start_time - now)
        IN  /\ Cardinality(Changed) <= 1
            /\ E # {} => Changed # {}
            /\ \A i \in Changed :
                /\ i \in E
                /\ \A j \in E : d(i) <= d(j) /\ (d(j) = d(i) => i <= j)
                /\ ~Pending(state'.notes[i])
            /\ \A i \in NoteIds : state.notes[i].lane # lane => state'.notes[i] = state.notes[i]

\* C5: press selection.  One press on a lane judges at most one note: the pending note of
\* that lane with the smallest |start_time - now| below 135 ms, the earliest in note
\* order among equals; notes of other lanes are left as they are.
C5_PressSelection == [][C5_Step]_vars

\* two pending taps of one lane are equally far (40 ms) from the press
C5_Witness ==
    /\ pc = "press"
    /\ \E i, j \in Eligible(state, next_lane(pressed), now) :
        /\ i < j
        /\ Abs(state.notes[i].start_time - now) = Abs(state.notes[j].start_time - now)
        /\ state.notes[i].start_time # state.notes[j].start_time

-----------------------------------------------------------------------------
C6_Step ==
    pc = "press" =>
        LET lane == next_lane(pressed)
            S == {i \in Eligible(state, lane, now) : state.notes[i].start_time = now}
        IN  S # {} =>
                /\ \E i \in S :
                    /\ Changed = {i}
                    /\ IF state.notes[i].is_ln
                       THEN state'.notes[i].ln_head_hit
                            /\ state'.notes[i].ln_head_judgment = "Perfect"
                       ELSE state'.notes[i].hit
                /\ state'.score = state.score + 300
                /\ state'.hit_counts = Bumped(state.hit_counts, "Perfect")

\* C6: a press at now equal to the start_time of a pending note of the lane is judged
\* Perfect: a note that starts at now is the one judged, score grows by 300 and the
\* perfect bucket by 1.
C6_PressAtStart == [][C6_Step]_vars

\* the second of two taps of a lane was pressed at its start_time while the first, 80 ms
\* earlier, was still pending
C6_Witness ==
    /\ Len(state.notes) = 2
    /\ PressedInFrame(2)
    /\ state.notes[2].start_time = now
    /\ state.notes[1].lane = state.notes[2].lane
    /\ Pending(state.notes[1])
    /\ state.notes[1].start_time < now

-----------------------------------------------------------------------------
\* C7: tier classification.  from_timing(d) is Perfect iff d <= 40, Great iff
\* 40 < d <= 75, Good iff 75 < d <= 110, Ok iff 110 < d <= 135 and Miss otherwise, and
\* score_value maps the tiers to 300, 200, 100, 50 and 0.
C7_Tiers ==
    judged # NotJudged =>
        /\ judged.judgment = "Perfect" <=> abs_diff <= 40
        /\ judged.judgment = "Great" <=> (40 < abs_diff /\ abs_diff <= 75)
        /\ judged.judgment = "Good" <=> (75 < abs_diff /\ abs_diff <= 110)
        /\ judged.judgment = "Ok" <=> (110 < abs_diff /\ abs_diff <= 135)
        /\ judged.judgment = "Miss" <=> abs_diff > 135
        /\ judged.judgment = "Perfect" => judged.score_value = 300
        /\ judged.judgment = "Great" => judged.score_value = 200
        /\ judged.judgment = "Good" => judged.score_value = 100
        /\ judged.judgment = "Ok" => judged.score_value = 50
        /\ judged.judgment = "Miss" => judged.score_value = 0

\* the offset on the edge of the last window has been classified
C7_Witness == abs_diff = 135 /\ judged.judgment = "Ok" /\ judged.score_value = 50

-----------------------------------------------------------------------------
\* a long note whose head is hit and whose tail is open
Holding(n) == n.is_ln /\ n.ln_head_hit /\ ~n.ln_completed /\ ~n.ln_hold_broken

\* the long notes a release on `lane` at time t may resolve
TailOpen(s, lane, t) ==
    {i \in 1 .. Len(s.notes) :
        /\ s.notes[i].lane = lane
        /\ Holding(s.notes[i])
        /\ Abs(s.notes[i].end_time - t) < 135}

C8_Step ==
    pc = "release" =>
        LET lane == next_lane(released)
            T == TailOpen(state, lane, now)
        IN  IF T = {}
            THEN Changed = {} /\ Totals(state') = Totals(state)
            ELSE LET i == Min(T)
                     n == state.notes[i]
                     tier == TierOf(Abs(n.end_time - now))
                 IN  /\ Changed = {i}
                     /\ state'.notes[i] = [n EXCEPT !.ln_tail_judgment = tier,
                                                    !.ln_completed = TRUE]
                     /\ tier # "Miss"
                     /\ state'.combo = state.combo + 1
                     /\ state'.score = state.score + ValueOf(tier)
                     /\ state'.hit_counts = Bumped(state.hit_counts, tier)

\* C8: release handling.  A release on a lane resolves at most one long note, the first
\* in note order of that lane with head hit, not completed, not hold-broken and
\* |end_time - now| < 135 ms: its tail judgment is the tier of |end_time - now|, it is
\* completed, combo grows by 1, score by the tier's value, the tier's bucket by 1; every
\* other note is left as it is.
C8_Release == [][C8_Step]_vars

\* the release loop is through; of two long notes of the lane that were both held and
\* inside their tail windows, the first is completed and the second still open
C8_Witness ==
    /\ pc = "hold"
    /\ frame0 # NoFrame
    /\ Len(state.notes) = 2
    /\ TailOpen(frame0, state.notes[1].lane, now) = {1, 2}
    /\ state.notes[1].ln_completed /\ state.notes[1].ln_tail_judgment \in {"Perfect", "Great", "Good", "Ok"}
    /\ Holding(state.notes[2])

-----------------------------------------------------------------------------
\* the long notes that were held when the running frame began, whose key has a release
\* event in the frame and is up, with now inside [start_time, last]
ReleasedMidHold(i, last) ==
    /\ frame0 # NoFrame
    /\ Holding(frame0.notes[i])
    /\ state.notes[i].lane \in released
    /\ state.notes[i].lane \notin keys_down
    /\ state.notes[i].start_time <= now
    /\ now <= last

\* C9 as stated: releasing anywhere in [start_time, end_time) breaks the hold.  Once the
\* hold integrity loop of the frame is through, the note is hold-broken, combo is 0 and
\* miss has grown.
C9_AnyMidHoldRelease ==
    pc \in {"sound", "miss"} =>
        \A i \in NoteIds :
            ReleasedMidHold(i, state.notes[i].end_time - 1) =>
                /\ state.notes[i].ln_hold_broken
                /\ state.combo = 0
                /\ state.hit_counts.miss >= frame0.hit_counts.miss + 1

C9_Step ==
    /\ pc = "hold" =>
        LET B == {i \in NoteIds : ReleasedMidHold(i, state.notes[i].end_time - 135)}
            all == {i \in NoteIds : ~state.notes[i].ln_hold_broken
                                    /\ state'.notes[i].ln_hold_broken}
        IN  B # {} =>
                /\ \A i \in B : Holding(state.notes[i]) /\ state'.notes[i].ln_hold_broken
                /\ state'.combo = 0
                /\ state'.hit_counts.miss = state.hit_counts.miss + Cardinality(all)
    /\ \A i \in NoteIds :
        state.notes[i].ln_hold_broken =>
            state'.notes[i].ln_hold_broken /\ ~Holding(state'.notes[i])

\* C9, amended: releasing before the tail window breaks the hold.  For a long note held
\* at the start of the frame, if the lane key is released at now with
\* start_time <= now <= end_time - 135 ms and is not down afterwards, the release loop
\* leaves the note open and the hold integrity loop sets ln_hold_broken, sets combo to 0
\* and adds 1 to miss for each note it breaks; a hold-broken note stays hold-broken and
\* is never held again.
C9_MidHoldRelease == [][C9_Step]_vars

\* the long note from 1.0 s to 2.0 s, head hit, was released in the frame at 1.5 s and
\* the hold integrity loop has broken it
C9_Witness ==
    /\ pc = "sound"
    /\ now = 1500
    /\ ReleasedMidHold(1, state.notes[1].end_time - 135)
    /\ state.notes[1].start_time = 1000 /\ state.notes[1].end_time = 2000
    /\ state.notes[1].ln_hold_broken
    /\ state.combo = 0

-----------------------------------------------------------------------------
C10_Step ==
    pc = "hold" =>
        LET B == {i \in NoteIds :
                    /\ Holding(state.notes[i])
                    /\ state.notes[i].start_time <= now
                    /\ now < state.notes[i].end_time
                    /\ state.notes[i].lane \notin keys_down}
        IN  /\ \A i \in B :
                state'.notes[i] = [state.notes[i] EXCEPT !.ln_hold_broken = TRUE,
                                                          !.ln_completed = TRUE,
                                                          !.ln_tail_judgment = "Miss"]
            /\ \A i \in NoteIds \ B : state'.notes[i] = state.notes[i]
            /\ IF B = {}
               THEN Totals(state') = Totals(state)
               ELSE /\ state'.combo = 0
                    /\ state'.score = state.score
                    /\ state'.hit_counts =
                           [state.hit_counts EXCEPT !.miss = @ + Cardinality(B)]

\* C10: the hold integrity pass.  Every long note with head hit, not completed, not
\* hold-broken, start_time <= now < end_time and its lane key up becomes hold-broken and
\* completed with tail judgment Miss, combo becomes 0 and miss grows by 1 for each such
\* note; a note whose key is down, or with now outside [start_time, end_time), and the
\* totals when there is no such note, are left as they are.
C10_HoldPass == [][C10_Step]_vars

\* the pass has broken a hold in this frame, and this frame's release was no part of it:
\* the key went up while the game was paused
C10_Witness ==
    /\ pc = "sound"
    /\ frame0 # NoFrame
    /\ released = {}
    /\ \E i \in NoteIds : Holding(frame0.notes[i]) /\ state.notes[i].ln_hold_broken
    /\ state.combo = 0

-----------------------------------------------------------------------------
(* The missed sweep as the specification words it.                         *)

\* long notes whose head was never hit, more than 135 ms past their start, not yet swept
SweepHeads(s, t) ==
    {i \in 1 .. Len(s.notes) :
        /\ s.notes[i].is_ln /\ ~s.notes[i].missed
        /\ ~s.notes[i].ln_head_hit /\ t - s.notes[i].start_time > 135}

\* long notes with head hit, neither completed nor hold-broken, more than 135 ms past
\* their end
SweepTails(s, t) ==
    {i \in 1 .. Len(s.notes) :
        /\ s.notes[i].is_ln /\ ~s.notes[i].missed
        /\ s.notes[i].ln_head_hit /\ ~s.notes[i].ln_completed /\ ~s.notes[i].ln_hold_broken
        /\ (s.notes[i].end_time - t) < -135}

\* taps not hit, more than 135 ms past their start, not yet swept
SweepTaps(s, t) ==
    {i \in 1 .. Len(s.notes) :
        /\ ~s.notes[i].is_ln /\ ~s.notes[i].missed
        /\ ~s.notes[i].hit /\ (s.notes[i].start_time - t) < -135}

\* what the sweep adds to hit_counts.miss: 2 a head, 1 a tail, 1 a tap
SweepMisses(s, t) ==
    2 * Cardinality(SweepHeads(s, t)) + Cardinality(SweepTails(s, t))
        + Cardinality(SweepTaps(s, t))

C11_Step ==
    /\ pc = "miss" =>
        LET H == SweepHeads(state, now) IN
        /\ \A i \in H :
            state'.notes[i] = [state.notes[i] EXCEPT !.missed = TRUE,
                                                      !.ln_completed = TRUE,
                                                      !.ln_head_judgment = "Miss",
                                                      !.ln_tail_judgment = "Miss"]
        /\ H # {} => state'.combo = 0 /\ state'.score = state.score
        /\ state'.hit_counts = [state.hit_counts EXCEPT !.miss = @ + SweepMisses(state, now)]
    /\ \A i \in NoteIds :
        (state.notes[i].is_ln /\ state.notes[i].missed) =>
            Judged(state'.notes[i]) = Judged(state.notes[i])

\* C11: long-note head miss.  At the missed sweep of a frame, every long note whose head
\* was not hit, with now - start_time > 135 ms and not swept before, gets head judgment
\* Miss, tail judgment Miss, missed and ln_completed; combo becomes 0 and hit_counts.miss
\* grows by 2 for each such note; a long note that is missed is never judged again, so
\* the 2 are counted once.
C11_HeadMiss == [][C11_Step]_vars

\* the long note from 1.0 s was never pressed; the sweep of the frame at 1.136 s has
\* resolved it: miss is 2
C11_Witness ==
    /\ pc = "frame"
    /\ now = 1136
    /\ Len(state.notes) = 1
    /\ state.notes[1].start_time = 1000
    /\ HeadMissed(state.notes[1])
    /\ state.hit_counts.miss = 2
    /\ state.combo = 0

-----------------------------------------------------------------------------
C12_Step ==
    /\ pc = "miss" =>
        LET P == SweepTaps(state, now) IN
        /\ \A i \in P : state'.notes[i] = [state.notes[i] EXCEPT !.missed = TRUE]
        /\ \A i \in NoteIds \ P : ~state.notes[i].is_ln => state'.notes[i] = state.notes[i]
        /\ P # {} => state'.combo = 0 /\ state'.score = state.score
        /\ state'.hit_counts.miss = state.hit_counts.miss + SweepMisses(state, now)
    /\ \A i \in NoteIds :
        LET n == state.notes[i]
            m == state'.notes[i]
        IN  ~n.is_ln =>
                /\ ~(n.hit /\ n.missed)
                /\ n.hit => ~m.missed
                /\ n.missed => m = n
                /\ (~n.missed /\ m.missed) => pc = "miss"

\* C12: tap-note miss.  At the missed sweep of a frame, every tap that is not hit, with
\* (start_time - now) < -135 ms and not swept before, gets missed; combo becomes 0 and
\* hit_counts.miss grows by 1 for each such tap; no other tap is changed by the sweep, a
\* missed tap is never changed again, and a tap that was hit is never marked missed.
C12_TapMiss == [][C12_Step]_vars

\* the first tap of the lane was hit, the second was not; the sweep has marked the second
\* alone: miss is 1
C12_Witness ==
    /\ pc = "frame"
    /\ Len(state.notes) = 2
    /\ ~state.notes[1].is_ln /\ state.notes[1].hit /\ ~state.notes[1].missed
    /\ now > state.notes[1].start_time + 135
    /\ ~state.notes[2].is_ln /\ state.notes[2].missed /\ ~state.notes[2].hit
    /\ state.hit_counts.miss = 1
    /\ state.combo = 0

-----------------------------------------------------------------------------
C13_Step ==
    pc = "miss" =>
        LET T == SweepTails(state, now) IN
        /\ \A i \in T :
            /\ state'.notes[i] = [state.notes[i] EXCEPT !.missed = TRUE,
                                                         !.ln_completed = TRUE,
                                                         !.ln_tail_judgment = "Miss"]
            /\ state'.notes[i].ln_head_judgment = state.notes[i].ln_head_judgment
            /\ state'.notes[i].ln_head_judgment \in {"Perfect", "Great", "Good", "Ok"}
        /\ T # {} => state'.combo = 0 /\ state'.score = state.score
        /\ state'.hit_counts.miss =
               state.hit_counts.miss + Cardinality(T)
                   + 2 * Cardinality(SweepHeads(state, now)) + Cardinality(SweepTaps(state, now))

\* C13: long-note tail timeout.  At the missed sweep of a frame, every long note with
\* head hit, neither completed nor hold-broken, with (end_time - now) < -135 ms gets tail
\* judgment Miss (and missed, ln_completed); its head judgment stays the tier it was;
\* combo becomes 0 and hit_counts.miss grows by 1, not 2, for each such note.
C13_TailTimeout == [][C13_Step]_vars

\* the long note from 1.0 s to 2.0 s was pressed and held past its end; the sweep of the
\* frame at 2.136 s has timed its tail out: miss is 1
C13_Witness ==
    /\ pc = "frame"
    /\ now = 2136
    /\ Len(state.notes) = 1
    /\ state.notes[1].end_time = 2000
    /\ TailTimeout(state.notes[1])
    /\ state.notes[1].ln_head_judgment \in {"Perfect", "Great", "Good", "Ok"}
    /\ ~state.notes[1].ln_hold_broken
    /\ state.hit_counts.miss = 1
    /\ 0 \in keys_down

-----------------------------------------------------------------------------
\* the non-miss judgments a step makes: tap hits, long-note head hits, tail releases
HitsOfStep ==
    Cardinality({i \in NoteIds : ~state.notes[i].hit /\ state'.notes[i].hit})
    + Cardinality({i \in NoteIds : ~state.notes[i].ln_head_hit /\ state'.notes[i].ln_head_hit})
    + Cardinality({i \in NoteIds : /\ state.notes[i].ln_tail_judgment = "None"
                                   /\ state'.notes[i].ln_tail_judgment
                                          \in {"Perfect", "Great", "Good", "Ok"}})

\* the notes a step misses or whose hold it breaks
MissesOfStep ==
    {i \in NoteIds : \/ ~state.notes[i].missed /\ state'.notes[i].missed
                     \/ ~state.notes[i].ln_hold_broken /\ state'.notes[i].ln_hold_broken}

\* the non-miss judgments of the session
HitTotal(s) == s.hit_counts.perfect + s.hit_counts.great + s.hit_counts.good + s.hit_counts.ok

C14_Step ==
    /\ state.combo >= 0
    /\ state.combo <= HitTotal(state)
    /\ state.hit_counts.miss = 0 => state.combo = HitTotal(state)
    /\ IF MissesOfStep # {}
       THEN state'.combo = 0 /\ HitsOfStep = 0
       ELSE state'.combo = state.combo + HitsOfStep
    /\ HitTotal(state') = HitTotal(state) + HitsOfStep
    /\ state'.hit_counts.miss > state.hit_counts.miss <=> MissesOfStep # {}

\* C14: combo invariant.  combo is never negative and counts the non-miss judgments (tap
\* hits, long-note head hits, long-note tail releases) since the latest miss or hold
\* break: it starts at 0, a step that misses a note or breaks a hold sets it to 0, any
\* other step adds the non-miss judgments it makes, and while the session has no miss it
\* equals the number of non-miss judgments made.
C14_Combo == [][C14_Step]_vars

\* a tap was missed and the next tap of the lane hit after it: combo is 1 again
C14_Witness ==
    /\ state.hit_counts.miss = 1
    /\ state.combo = 1
    /\ Len(state.notes) = 2
    /\ state.notes[1].missed /\ state.notes[2].hit

-----------------------------------------------------------------------------
\* the judgment state of every note
JudgedNotes(s) == [i \in 1 .. Len(s.notes) |-> Judged(s.notes[i])]

C15_Step ==
    /\ state.paused => pc = "frame"
    /\ (pc = "frame" /\ state'.paused) =>
        /\ JudgedNotes(state') = JudgedNotes(state)
        /\ Totals(state') = Totals(state)
        /\ pc' = "frame"
        /\ now' = now

\* C15: pausing freezes judgment.  A frame that finds the session paused, or pauses it,
\* runs none of the judgment passes: no note's judgment state changes and score, combo and
\* hit_counts stay as they are, whatever keys are down and however far the wall clock has
\* moved.
C15_PauseFreezes == [][C15_Step]_vars

\* a second frame has run in the pause, 500 ms of wall clock after the first, with a key
\* down; by the wall clock the pending note is past its miss threshold
C15_Witness ==
    /\ state.paused
    /\ elapsed - state.pause_start >= 500
    /\ keys_down # {}
    /\ \E i \in NoteIds :
        /\ Pending(state.notes[i])
        /\ (elapsed - state.total_pause_time) - state.notes[i].start_time > 135
        /\ state.notes[i].lane \in keys_down

-----------------------------------------------------------------------------
C16_Step ==
    /\ ~state.paused => now = elapsed - state.total_pause_time
    /\ state.paused => state.pause_start <= elapsed /\ now <= state.pause_start - state.total_pause_time
    /\ now' >= now
    /\ elapsed' >= elapsed
    /\ pc # "frame" => now' = now /\ state'.total_pause_time = state.total_pause_time
    /\ pc = "frame" =>
        CASE ~state.paused /\ ~state'.paused ->
                 /\ state'.total_pause_time = state.total_pause_time
                 /\ now' - now = elapsed' - elapsed
          [] ~state.paused /\ state'.paused ->
                 /\ state'.total_pause_time = state.total_pause_time
                 /\ state'.pause_start = elapsed'
                 /\ now' = now
          [] state.paused /\ state'.paused ->
                 /\ state'.total_pause_time = state.total_pause_time
                 /\ state'.pause_start = state.pause_start
                 /\ now' = now
          [] state.paused /\ ~state'.paused ->
                 /\ state'.total_pause_time =
                        state.total_pause_time + (elapsed' - state.pause_start)
                 /\ now' = elapsed' - state'.total_pause_time
                 /\ now' = state.pause_start - state.total_pause_time
    /\ pc = "miss" =>
        \A i \in NoteIds :
            (~state.notes[i].missed /\ state'.notes[i].missed) =>
                (elapsed - state.total_pause_time) - state.notes[i].start_time > 135

\* C16: pause-compensated clock.  The now of an unpaused frame is the wall clock minus
\* total_pause_time; total_pause_time grows only in the frame that ends a pause, by the
\* wall-clock length of that pause, so that frame's now is the clock value at which the
\* pause began; now never decreases; between two unpaused frames with no pause between
\* them now moves as the wall clock does; the sweep marks a note missed only when the wall
\* clock less the pauses is more than 135 ms past its start.
C16_PauseClock == [][C16_Step]_vars

\* a pause has ended and the frame that ended it has run its sweep: by the wall clock the
\* pending note is more than 135 ms late, by now it is not, and it is still pending
C16_Witness ==
    /\ pc = "frame"
    /\ ~state.paused /\ ~state.song_finished
    /\ state.total_pause_time > 0
    /\ \E i \in NoteIds :
        /\ Pending(state.notes[i])
        /\ elapsed - state.notes[i].start_time > 135
        /\ now - state.notes[i].start_time <= 135
        /\ now - state.notes[i].start_time > -135

-----------------------------------------------------------------------------
\* the loop of a long note is desired at time t
LoopDesired(n, t) ==
    /\ n.ln_head_hit /\ ~n.ln_completed /\ ~n.ln_hold_broken
    /\ n.start_time <= t /\ t < n.end_time

\* C17: audio loop diffing.  After the slider sound step of an unpaused, unfinished
\* frame, slider_sound_playing of every long note is true exactly when its loop is
\* desired: ln_head_hit, not ln_completed, not ln_hold_broken and
\* start_time <= now < end_time.
C17_FlagIsDesired ==
    (pc = "miss" /\ frame0 # NoFrame) =>
        \A i \in NoteIds :
            state.notes[i].is_ln =>
                (state.notes[i].slider_sound_playing <=> LoopDesired(state.notes[i], now))

-----------------------------------------------------------------------------
\* the loops a step starts: notes whose slider_sound_playing turns true
StartedLoops ==
    {i \in NoteIds : ~state.notes[i].slider_sound_playing /\ state'.notes[i].slider_sound_playing}

C18_Step ==
    /\ (pc = "frame" /\ (state'.paused \/ state'.song_finished)) =>
        /\ sinks' = <<>>
        /\ StartedLoops = {}
        /\ pc' = "frame"
    /\ (StartedLoops # {} \/ Len(sinks') > Len(sinks)) =>
        /\ pc = "sound"
        /\ ~state.paused /\ ~state.song_finished
    /\ exited => sinks = <<>> /\ state.song_finished
    /\ exited' => sinks' = <<>>

\* C18: stop_all ordering.  Every frame that ends paused and every frame at which the
\* song is finished, the one that sets song_finished included, leaves no slider sink
\* playing and starts no loop; loops are started only by the slider sound step of a
\* frame that is neither paused nor finished; so when update_and_draw returns true no
\* sink is playing.
C18_StopAll == [][C18_Step]_vars

\* update_and_draw has returned true; the loop of a held long note was playing when the
\* song finished and has been stopped
C18_Witness ==
    /\ exited
    /\ sinks = <<>>
    /\ \E i \in NoteIds : state.notes[i].slider_sound_playing /\ Holding(state.notes[i])

-----------------------------------------------------------------------------
\* what the judgment passes make of the state the running frame began with, given the
\* frame's inputs alone
FrameResult == judgment_passes(frame0, pressed, released, keys_down, now)

C19_Step ==
    /\ pc = "frame" =>
        /\ JudgedNotes(state') = JudgedNotes(state)
        /\ Totals(state') = Totals(state)
    /\ pc = "sound" =>
        /\ JudgedNotes(state') = JudgedNotes(state)
        /\ Totals(state') = Totals(state)
        /\ pc' = "miss"
    /\ pc = "miss" =>
        /\ JudgedNotes(state') = JudgedNotes(FrameResult)
        /\ Totals(state') = Totals(FrameResult)
        /\ pc' = "frame"
    /\ audio' = audio

\* C19: audio failure never reaches the judgment core.  With no audio system attached,
\* with one whose every command fails and with one that works alike: the frame steps
\* that only talk to the audio system (pause, song end, slider sounds) change no judgment
\* state and no total, and when a frame ends, the judgment state of every note, score,
\* combo and hit_counts are what the four judgment passes make of the frame's first state
\* and its key inputs, a result in which no audio outcome takes part; the steps follow
\* each other in the same order.
C19_AudioIndependent == [][C19_Step]_vars

\* no audio system is attached; the long note was hit and held, its flag is set though
\* no sink plays, and the frame has ended with the hit counted
C19_Witness ==
    /\ audio = "none"
    /\ pc = "frame"
    /\ sinks = <<>>
    /\ \E i \in NoteIds : state.notes[i].slider_sound_playing /\ Holding(state.notes[i])
    /\ state.combo = 1
    /\ HitTotal(state) = 1

-----------------------------------------------------------------------------
\* C20: accuracy.  With total_judged = perfect + great + good + ok + miss and
\* weighted = 300*perfect + 200*great + 100*good + 50*ok, the accuracy the results screen
\* computes is weighted / (300 * total_judged) * 100 when total_judged > 0 and 0 when
\* total_judged = 0; it lies in [0, 100]; 1 Perfect and 1 Miss give 50.
C20_Accuracy ==
    results # NotDrawn =>
        LET hc == state.hit_counts
            total_judged == hc.perfect + hc.great + hc.good + hc.ok + hc.miss
            weighted == 300 * hc.perfect + 200 * hc.great + 100 * hc.good + 50 * hc.ok
            a == results.accuracy
        IN  /\ a[2] > 0
            /\ total_judged > 0 => a[1] * (3 * total_judged) = weighted * a[2]
            /\ total_judged = 0 => a[1] = 0
            /\ 0 <= a[1] /\ a[1] <= 100 * a[2]
            /\ (hc.perfect = 1 /\ hc.miss = 1 /\ total_judged = 2) => a[1] = 50 * a[2]

\* the results of 1 Perfect and 1 Miss are drawn: 50
C20_Witness ==
    /\ results # NotDrawn
    /\ state.hit_counts = [perfect |-> 1, great |-> 0, good |-> 0, ok |-> 0, miss |-> 1]
    /\ results.accuracy[1] = 50 * results.accuracy[2]

-----------------------------------------------------------------------------
\* the accuracy of hit_counts hc is at least pct, by the formula of C20
AccuracyAtLeast(hc, pct) ==
    LET total_judged == hc.perfect + hc.great + hc.good + hc.ok + hc.miss
        weighted == 300 * hc.perfect + 200 * hc.great + 100 * hc.good + 50 * hc.ok
    IN  IF total_judged > 0 THEN weighted * 100 >= pct * (300 * total_judged) ELSE 0 >= pct

\* C21: grade.  The grade is SS iff accuracy >= 100 and miss = 0; otherwise S iff
\* accuracy >= 95 and miss = 0; otherwise A iff accuracy >= 90; otherwise B iff
\* accuracy >= 80; otherwise C iff accuracy >= 70; otherwise D.  SS is given exactly when
\* at least one object was judged and every judged object is Perfect; no judged object
\* gives D.
C21_Grade ==
    results # NotDrawn =>
        LET hc == state.hit_counts
            total_judged == hc.perfect + hc.great + hc.good + hc.ok + hc.miss
            ss == AccuracyAtLeast(hc, 100) /\ hc.miss = 0
            s == ~ss /\ AccuracyAtLeast(hc, 95) /\ hc.miss = 0
            a == ~ss /\ ~s /\ AccuracyAtLeast(hc, 90)
            b == ~ss /\ ~s /\ ~a /\ AccuracyAtLeast(hc, 80)
            c == ~ss /\ ~s /\ ~a /\ ~b /\ AccuracyAtLeast(hc, 70)
        IN  /\ results.grade = "SS" <=> ss
            /\ results.grade = "S" <=> s
            /\ results.grade = "A" <=> a
            /\ results.grade = "B" <=> b
            /\ results.grade = "C" <=> c
            /\ results.grade = "D" <=> ~(ss \/ s \/ a \/ b \/ c)
            /\ results.grade = "SS" <=> (total_judged > 0 /\ hc.perfect = total_judged)
            /\ total_judged = 0 => results.grade = "D"

\* the results of 6 Perfect and 1 Great are drawn: accuracy above 95, no miss, grade S
C21_Witness ==
    /\ results # NotDrawn
    /\ state.hit_counts = [perfect |-> 6, great |-> 1, good |-> 0, ok |-> 0, miss |-> 0]
    /\ results.grade = "S"


-----------------------------------------------------------------------------
(* Properties of load_map.                                                 *)

\* load_map returned a session
Parsed == loaded.status = "ok"

\* the lines of [HitObjects] with at least four fields, in the order of the file:
\* the line of note i is KeptLines[i]
KeptLines ==
    LET RECURSIVE kept(_)
        kept(i) == IF i > Len(osu_file.hit_lines) THEN <<>>
                   ELSE IF Len(osu_file.hit_lines[i]) >= 4
                   THEN <<osu_file.hit_lines[i]>> \o kept(i + 1)
                   ELSE kept(i + 1)
    IN  kept(1)

LoadedIds == IF Parsed THEN 1 .. Len(loaded.state.notes) ELSE {}

\* the number a field holds, 0 when its text does not parse
FieldOr0(p, j) == IF p[j].ok THEN p[j].v ELSE 0

HoldBit(p) == (FieldOr0(p, 4) \div 128) % 2 = 1

SliderBit(p) == (FieldOr0(p, 4) \div 2) % 2 = 1

\* C22: every note of a loaded chart ends no earlier than it starts: for every
\* note that load_map produces, tap, slider and hold alike, end_time >= start_time.
C22_EndNotBeforeStart ==
    \A i \in LoadedIds :
        loaded.state.notes[i].end_time >= loaded.state.notes[i].start_time

\* C23: an object whose type has neither the hold bit (128) nor the slider bit (2)
\* becomes a tap: its end_time equals its start_time and is_ln is false.
C23_TapEndsAtStart ==
    \A i \in LoadedIds :
        (~HoldBit(KeptLines[i]) /\ ~SliderBit(KeptLines[i]))
            => /\ loaded.state.notes[i].end_time = loaded.state.notes[i].start_time
               /\ ~loaded.state.notes[i].is_ln

\* C24: the lane of an object at x in a k-key session, k in {2, 4}, is
\* clamp(floor(x * k / 512), 0, k - 1): it lies in 0 .. k-1 for every x, negative,
\* unparsable (taken as 0) or at least 512.
C24_Lane ==
    \A i \in LoadedIds :
        LET x == FieldOr0(KeptLines[i], 1)
            k == osu_file.force_key_count
            l == loaded.state.notes[i].lane
        IN  /\ k \in {2, 4}
            /\ l \in 0 .. (k - 1)
            /\ IF x < 0 THEN l = 0
               ELSE IF x >= 512 THEN l = k - 1
               ELSE 512 * l <= x * k /\ x * k < 512 * (l + 1)

\* a 4K session whose object at x = 600 is in lane 3, the last
C24_Witness ==
    /\ Parsed
    /\ osu_file.force_key_count = 4
    /\ osu_file.hit_lines = <<TapLine(Num(600), 1000)>>
    /\ loaded.state.notes[1].lane = 3

\* the lines of [TimingPoints] with at least two fields, in the order of the file
KeptTiming ==
    LET RECURSIVE kept(_)
        kept(i) == IF i > Len(osu_file.timing_lines) THEN <<>>
                   ELSE IF Len(osu_file.timing_lines[i]) >= 2
                   THEN <<osu_file.timing_lines[i]>> \o kept(i + 1)
                   ELSE kept(i + 1)
    IN  kept(1)

\* the value of a timing line, 500 when its text does not parse
ValueOfLine(p) == IF p[2].ok THEN p[2].v ELSE 500

\* the fraction f is the number n / d
IsRatio(f, n, d) == f[2] # 0 /\ f[1] * d = n * f[2]

\* C25: a timing line with a positive value v gives the point (time, beat_length = v,
\* velocity 1.0); a line with a negative value V gives velocity -100 / V (2.0 for
\* -50, 0.5 for -200) and the beat length of the most recent uninherited point
\* before it, 500 when there is none.
C25_TimingLine ==
    (Parsed /\ KeptTiming # <<>>) =>
        /\ Len(loaded.timing_points) = Len(KeptTiming)
        /\ \A j \in 1 .. Len(KeptTiming) :
            LET v == ValueOfLine(KeptTiming[j])
                point == loaded.timing_points[j]
                before == {m \in 1 .. (j - 1) : ValueOfLine(KeptTiming[m]) > 0}
            IN  /\ point.time_ms = FieldOr0(KeptTiming[j], 1)
                /\ v > 0 => point.beat_length = v /\ IsRatio(point.velocity_mult, 1, 1)
                /\ v < 0 =>
                    /\ IsRatio(point.velocity_mult, -100, v)
                    /\ v = -50 => IsRatio(point.velocity_mult, 2, 1)
                    /\ v = -200 => IsRatio(point.velocity_mult, 1, 2)
                    /\ point.beat_length =
                           IF before = {} THEN 500
                           ELSE ValueOfLine(KeptTiming[Max(before)])

\* beat lengths 500 and then 400, and an inherited line -200 after them: its point
\* has the beat length 400 and the velocity 0.5
C25_Witness ==
    /\ Parsed
    /\ osu_file.timing_lines
           = << <<Num(0), Num(500)>>, <<Num(1000), Num(400)>>, <<Num(1500), Num(-200)>> >>
    /\ loaded.timing_points[3]
           = [time_ms |-> 1500, beat_length |-> 400, velocity_mult |-> <<-100, -200>>]

\* C26: the timing of a slider at t is that of the last point of the table with
\* time_ms <= t, and (500, 1.0) when there is none; a chart without a timing line
\* has the table of the single point (0, 500, 1.0).
C26_Lookup ==
    Parsed =>
        /\ KeptTiming = <<>> =>
               loaded.timing_points
                   = <<[time_ms |-> 0, beat_length |-> 500, velocity_mult |-> <<1, 1>>]>>
        /\ \A i \in LoadedIds :
            LET t == FieldOr0(KeptLines[i], 3)
                tp == loaded.timing_points
                found == loaded.lookup[i]
            IN  /\ (\A j \in 1 .. Len(tp) : tp[j].time_ms > t)
                       => found = [beat_length |-> 500, velocity_mult |-> <<1, 1>>]
                /\ \A j \in 1 .. Len(tp) :
                       (/\ tp[j].time_ms <= t
                        /\ \A m \in (j + 1) .. Len(tp) : tp[m].time_ms > t)
                           => found = [beat_length |-> tp[j].beat_length,
                                       velocity_mult |-> tp[j].velocity_mult]

\* points at 0, 1000 and 1500 and a slider at 1200: it takes the point at 1000
C26_Witness ==
    /\ Parsed
    /\ osu_file.timing_lines
           = << <<Num(0), Num(500)>>, <<Num(1000), Num(400)>>, <<Num(1500), Num(-200)>> >>
    /\ osu_file.hit_lines = <<SliderLine(1200, 1, 140)>>
    /\ loaded.lookup[1] = [beat_length |-> 400, velocity_mult |-> <<1, 1>>]

\* SliderMultiplier of the chart, 1.4 when the line is absent or does not parse
MultiplierOfChart ==
    IF osu_file.slider_multiplier.ok THEN osu_file.slider_multiplier.v ELSE <<14, 10>>

\* C27: a slider (slider bit set, hold bit clear, at least 8 fields) ends at
\* start + (pixel_length / (slider_multiplier * 100 * velocity)) * beat_length
\* * slide_count, in ms; an object with the hold bit and an end-time field ends at
\* that field, and the slider formula is not applied to it even if its slider bit
\* is set too.
C27_EndTime ==
    \A i \in LoadedIds :
        LET p == KeptLines[i]
            note == loaded.state.notes[i]
            sm == MultiplierOfChart
            bl == loaded.lookup[i].beat_length
            vel == loaded.lookup[i].velocity_mult
        IN  /\ (HoldBit(p) /\ Len(p) > 5 /\ p[6].ok) => note.end_time = p[6].v
            /\ (SliderBit(p) /\ ~HoldBit(p) /\ Len(p) >= 8 /\ p[7].ok /\ p[8].ok
                    /\ vel[2] # 0)
                   => (note.end_time - note.start_time) * (sm[1] * 100 * vel[1])
                          = p[8].v * bl * p[7].v * (sm[2] * vel[2])

\* an object with both bits, the end field 2000 and the pixel length of a slider
\* of 250 ms: it ends at 2000
C27_Witness ==
    /\ Parsed
    /\ osu_file.hit_lines
           = << <<Num(64), Num(192), Num(1000), Num(130), Num(0), Num(2000), Num(1),
                  Num(140)>> >>
    /\ osu_file.slider_multiplier = Bad
    /\ loaded.state.notes[1].start_time = 1000
    /\ loaded.state.notes[1].end_time = 2000

\* C28: the timing-point table is in ascending order of time_ms, whatever the
\* order of the lines of [TimingPoints].
C28_TableSorted ==
    Parsed =>
        \A j, m \in 1 .. Len(loaded.timing_points) :
            j < m => loaded.timing_points[j].time_ms <= loaded.timing_points[m].time_ms

\* C30: parsing never aborts: for every chart that can be read and whose audio file
\* can be opened and decoded (with an output to play it on), load_map completes and
\* returns a session; a malformed field or background event line, an unknown image
\* format and a missing image file are defaulted or skipped, with no panic and no
\* error return.
C30_NeverAborts ==
    (loaded # NotLoaded /\ osu_file.readable /\ osu_file.audio = "ok" /\ osu_file.output)
        => loaded.status = "ok"

-----------------------------------------------------------------------------
(* Properties of the scenes.                                               *)

\* the step called load_map: the chart or the result of the call is new
LoadStep == osu_file' # osu_file \/ loaded' # loaded

\* C29: a failing load is fatal to the load only: when load_map fails (the chart
\* cannot be read, the audio file is missing or cannot be decoded) no session is
\* created, the scene stays the difficulty list, and the previous game state and
\* the sink of the music are unchanged; the scene becomes Playing only after a load
\* that returned a session.
C29_LoadFatal ==
    [][ /\ (LoadStep /\ loaded'.status = "err")
            => /\ scene = "DiffSelect" /\ scene' = "DiffSelect"
               /\ state' = state
               /\ audio_sink' = audio_sink
        /\ (scene # "Playing" /\ scene' = "Playing")
            => /\ scene = "DiffSelect"
               /\ loaded'.status = "ok"
               /\ state' = loaded'.state
               /\ audio_sink' = "Some" ]_vars

\* a session was played to its results and left, and the load of a chart whose
\* audio file is missing then failed: the finished session is still the game state
C29_Witness ==
    /\ scene = "DiffSelect"
    /\ loaded.status = "err"
    /\ osu_file.audio = "missing"
    /\ state # NoSession
    /\ state.song_finished
    /\ audio_sink = "None"

-----------------------------------------------------------------------------
(* Properties of the whole session.                                        *)

\* the score that the buckets of hc stand for
ScoreOfCounts(hc) == 300 * hc.perfect + 200 * hc.great + 100 * hc.good + 50 * hc.ok

\* C31: score and hit_counts agree.  In every reachable state score equals
\* 300 * perfect + 200 * great + 100 * good + 50 * ok of hit_counts, and no step
\* makes score smaller.
C31_ScoreConsistent ==
    [][ /\ state.score = ScoreOfCounts(state.hit_counts)
        /\ state'.score = ScoreOfCounts(state'.hit_counts)
        /\ state'.score >= state.score ]_vars

\* a long note with a Perfect head and an Ok tail: 350 points
C31_Witness ==
    /\ state.score = 350
    /\ state.hit_counts.perfect = 1
    /\ state.hit_counts.ok = 1
    /\ \E i \in NoteIds :
        state.notes[i].ln_head_judgment = "Perfect" /\ state.notes[i].ln_tail_judgment = "Ok"

\* the judgments the notes of s carry: one for a tap that is hit or missed, one for
\* the head and one for the tail of a long note whose judgment is set
JudgmentsOfNotes(s) ==
    Cardinality({i \in 1 .. Len(s.notes) :
                    ~s.notes[i].is_ln /\ (s.notes[i].hit \/ s.notes[i].missed)})
    + Cardinality({i \in 1 .. Len(s.notes) :
                    s.notes[i].is_ln /\ s.notes[i].ln_head_judgment # "None"})
    + Cardinality({i \in 1 .. Len(s.notes) :
                    s.notes[i].is_ln /\ s.notes[i].ln_tail_judgment # "None"})

CountsTotal(hc) == hc.perfect + hc.great + hc.good + hc.ok + hc.miss

\* C32: judgment accounting.  In every reachable state the sum of the five buckets
\* equals the number of taps that are hit or missed plus the number of long notes
\* whose head judgment is set plus the number of long notes whose tail judgment is
\* set: a tap counts at most once, a long note at most twice, and no judgment is
\* counted twice or dropped.
C32_Accounting ==
    /\ CountsTotal(state.hit_counts) = JudgmentsOfNotes(state)
    /\ CountsTotal(state.hit_counts)
           <= Cardinality({i \in NoteIds : ~state.notes[i].is_ln})
              + 2 * Cardinality({i \in NoteIds : state.notes[i].is_ln})

\* two long notes of one lane: one with its head hit and its hold broken, the other
\* with both judgments Miss from the sweep: four judgments counted
C32_Witness ==
    /\ Len(state.notes) = 2
    /\ CountsTotal(state.hit_counts) = 4
    /\ \E i, j \in NoteIds :
        /\ HoldBroken(state.notes[i])
        /\ HeadMissed(state.notes[j])

\* C33: the results are complete.  Whenever song_finished is true every note is in
\* a terminal state, so the hit_counts that accuracy and grade are computed from
\* have perfect + great + good + ok + miss = taps + 2 * long notes.
C33_ResultsComplete ==
    state.song_finished =>
        /\ \A i \in NoteIds : Terminal(state.notes[i])
        /\ CountsTotal(state.hit_counts)
               = Cardinality({i \in NoteIds : ~state.notes[i].is_ln})
                 + 2 * Cardinality({i \in NoteIds : state.notes[i].is_ln})

\* the indices of the notes of the charts
ChartNoteIds == UNION {1 .. Len(c.objects) : c \in LiveCharts}

\* note i exists and `now` is past the time until which it may wait: 135 ms after
\* the start of a tap or of a long note whose head is not hit, 135 ms after the end
\* of a long note whose head is hit
Overdue(i) ==
    /\ i \in NoteIds
    /\ LET n == state.notes[i] IN
        IF n.is_ln /\ n.ln_head_hit THEN now > n.end_time + OK_WINDOW
        ELSE now > n.start_time + OK_WINDOW

\* a tap that is hit or missed, a long note that is completed
Resolved(i) ==
    /\ i \in NoteIds
    /\ LET n == state.notes[i] IN
        IF n.is_ln THEN n.ln_completed ELSE n.hit \/ n.missed

\* C34: every note is resolved in the end.  While frames keep running and the song
\* is not finished, a note for which `now` is more than 135 ms past its start (a
\* tap, a long note with the head not hit) or past its end (a long note with the
\* head hit) becomes hit or missed, or ln_completed for a long note, whatever the
\* keys do.
C34_Resolved ==
    \A i \in ChartNoteIds :
        (Overdue(i) /\ ~Resolved(i) /\ ~state.song_finished) ~> Resolved(i)

\* the frame in which a long note with its head hit is more than 135 ms past its
\* end and not yet completed has begun, with the key still down
C34_Witness ==
    /\ pc = "hold"
    /\ ~state.song_finished
    /\ \E i \in NoteIds :
        /\ state.notes[i].is_ln /\ state.notes[i].ln_head_hit
        /\ ~state.notes[i].ln_completed
        /\ state.notes[i].lane \in keys_down
        /\ Overdue(i)

C35_Step ==
    /\ state.song_finished =>
           /\ state'.song_finished
           /\ state'.notes = state.notes
           /\ Totals(state') = Totals(state)
    /\ (exited' /\ ~exited) => state'.song_finished
    /\ state'.paused # state.paused => ~exited'

\* C35: finished is absorbing and the only exit.  Once song_finished is true it
\* stays true and no note, score, combo or bucket of hit_counts changes; the call
\* returns true only in a frame in which song_finished is true and Escape is
\* pressed, so an Escape before the song is finished, the one that toggles the
\* pause, never ends the session.
C35_FinishedAbsorbing == [][C35_Step]_vars

\* paused and song_finished exclude each other, and pause_start is set exactly
\* while paused
PauseConsistent(s) ==
    /\ ~(s.paused /\ s.song_finished)
    /\ s.paused <=> (s.pause_start # -1)

\* C36: pause and finish exclude each other.  In every reachable state paused and
\* song_finished are not both true and paused is true exactly when pause_start is
\* set; total_pause_time changes only in a step from paused to unpaused and never
\* decreases.
C36_PauseExclusion ==
    [][ /\ PauseConsistent(state)
        /\ PauseConsistent(state')
        /\ state'.total_pause_time >= state.total_pause_time
        /\ state'.total_pause_time # state.total_pause_time
               => (state.paused /\ ~state'.paused) ]_vars

\* the session is running again after a pause of 500 ms, which ended in the frame
\* that finished the song
C36_Witness ==
    /\ ~state.paused
    /\ state.pause_start = -1
    /\ state.total_pause_time = PauseStep
    /\ state.song_finished

\* the long notes whose slider_sound_playing is true
FlaggedNotes == {i \in NoteIds : state.notes[i].is_ln /\ state.notes[i].slider_sound_playing}

\* C37: the loop flag matches the audio collaborator.  With the loop sound loaded
\* and sinks that can be made, after every frame, paused, unpaused or finished, the
\* audio system holds as many loop sinks as there are long notes with
\* slider_sound_playing true; after a pause and resume during a hold, a note whose
\* flag is true still has a loop that sounds.
C37_FlagsMatchSinks ==
    (pc = "frame" /\ audio = "ok") => Len(sinks) = Cardinality(FlaggedNotes)

\* the notes that have a loop sink
Sounding(sk) == {sk[j] : j \in 1 .. Len(sk)}

C38_Step ==
    pc = "sound" =>
        \A i \in NoteIds :
            /\ (state.notes[i].slider_sound_playing /\ ~state'.notes[i].slider_sound_playing)
                   => i \notin Sounding(sinks')
            /\ (state.notes[i].slider_sound_playing /\ state'.notes[i].slider_sound_playing
                    /\ i \in Sounding(sinks))
                   => i \in Sounding(sinks')

\* C38: stop_loop stops the right loop.  When the loop of a long note is stopped
\* (the note is completed, its hold broken or its tail missed), the sink stopped is
\* the one started for that note: with two long notes of different lanes sounding,
\* the end of one neither silences the loop of the other nor leaves the loop of the
\* ended note sounding.
C38_RightLoop == [][C38_Step]_vars

\* the long notes of `lane` whose tail a release at time t may judge
EligibleTail(s, lane, t) ==
    {i \in 1 .. Len(s.notes) :
        /\ s.notes[i].lane = lane
        /\ s.notes[i].is_ln
        /\ s.notes[i].ln_head_hit
        /\ ~s.notes[i].ln_completed
        /\ ~s.notes[i].ln_hold_broken
        /\ Abs(s.notes[i].end_time - t) < 135}

C39_Step ==
    /\ (pc = "press" /\ Eligible(state, next_lane(pressed), now) = {})
           => (state' = state /\ hit_sounds' = hit_sounds)
    /\ (pc = "release" /\ EligibleTail(state, next_lane(released), now) = {})
           => (state' = state /\ hit_sounds' = hit_sounds)

\* C39: ghost inputs are free.  A press on a lane with no pending note of that lane
\* within 135 ms of now, and a release on a lane with no long-note tail that can be
\* judged, change nothing: the notes, score, combo, hit_counts and last_judgment
\* stay as they were and no hit sound is played.
C39_GhostInputsFree == [][C39_Step]_vars

\* a press is about to be handled on a lane whose only pending notes are out of
\* the window, after an earlier hit has played its sound
C39_Witness ==
    /\ pc = "press"
    /\ Eligible(state, next_lane(pressed), now) = {}
    /\ \E i \in NoteIds :
           state.notes[i].lane = next_lane(pressed) /\ Pending(state.notes[i])
    /\ hit_sounds > 0

\* at the sweep of a frame, every pending note that is past its start_time can
\* either still be selected by a press at this now or is marked missed
HittableOrSwept ==
    pc = "miss" =>
        \A i \in NoteIds :
            (Pending(state.notes[i]) /\ now > state.notes[i].start_time)
                => \/ i \in Eligible(state, state.notes[i].lane, now)
                   \/ state'.notes[i].missed

\* no note is inside the hit window and swept at the same now: the press never
\* judges a note the sweep of that now would take, and the sweep never takes a
\* pending note a press at that now could select
NeverHitAndSwept ==
    /\ pc = "press" =>
           \A i \in NoteIds :
               (Pending(state.notes[i]) /\ ~Pending(state'.notes[i]))
                   => /\ i \in Eligible(state, state.notes[i].lane, now)
                      /\ ~tap_missed(state.notes[i], now)
                      /\ ~ln_head_missed(state.notes[i], now)
    /\ pc = "miss" =>
           \A i \in NoteIds :
               (Pending(state.notes[i]) /\ state'.notes[i].missed)
                   => i \notin Eligible(state, state.notes[i].lane, now)

\* C40: no gap between the hit window and the miss threshold.  For every frame
\* time now and every pending note with now > start_time, the note is eligible for
\* a press on its lane at now or the sweep of that frame marks it missed; at no now
\* is a pending note neither hittable nor swept, and at none is it both hit by the
\* press and counted as a miss in the same frame.
C40_NoGap == [][HittableOrSwept /\ NeverHitAndSwept]_vars

\* HittableOrSwept away from the edge of the window, and at the edge: a pending
\* note exactly 135 ms late is not eligible and the sweep leaves it as it is
HittableOrSweptOffEdge ==
    pc = "miss" =>
        \A i \in NoteIds :
            (Pending(state.notes[i]) /\ now > state.notes[i].start_time)
                => IF now - state.notes[i].start_time = 135
                   THEN /\ i \notin Eligible(state, state.notes[i].lane, now)
                        /\ state'.notes[i] = state.notes[i]
                   ELSE (i \in Eligible(state, state.notes[i].lane, now))
                            # state'.notes[i].missed

\* C40 with the edge of the window set apart: for every frame time now and every
\* pending note with now > start_time and now - start_time other than 135 ms,
\* exactly one holds, the note is eligible for a press on its lane at now or the
\* sweep of that frame marks it missed; at exactly 135 ms it is neither; at no now
\* is a note both hit by the press and counted as a miss.
C40_NoGapOffEdge == [][HittableOrSweptOffEdge /\ NeverHitAndSwept]_vars

\* after the sweep of a frame: one note was swept just past the window while
\* another note of the same lane is still pending inside its window
C40_Witness ==
    /\ pc = "frame"
    /\ ~state.paused /\ ~state.song_finished
    /\ \E i, j \in NoteIds :
           /\ state.notes[i].missed /\ ~state.notes[i].is_ln /\ ~state.notes[i].hit
           /\ now - state.notes[i].start_time > 135
           /\ now - state.notes[i].start_time <= 135 + Jitter
           /\ Pending(state.notes[j])
           /\ now > state.notes[j].start_time
           /\ j \in Eligible(state, state.notes[i].lane, now)
=============================================================================
